---- MODULE Spec2Model ----
(***************************************************************************)
(* State-machine model of the api_versioning package: the version          *)
(* registry (load / reload), specification extraction and precedence       *)
(* resolution, the ASGI policy pipeline, and the per-consumer rate         *)
(* limiter.                                                                *)
(*                                                                         *)
(* Conventions.  A Python str is a sequence of one-character tokens        *)
(* ("SP" is a space, "LF" a line feed, "DEL" codepoint 127).  Optional[T]  *)
(* is a sequence of length 0 (None) or 1 (the value).  A date is its day   *)
(* ordinal.  Rate-limiter time is counted in ticks of 1/TicksPerSecond s.  *)
(***************************************************************************)
EXTENDS Integers, Sequences, FiniteSets, TLC

VARIABLES
    \* VersionRegistry class attributes (registry.py 49-53)
    versions, config_path, last_loaded, config_checksum,
    \* environment of the registry: wall clock read by datetime.now(), and the
    \* outcome / input of the most recent load_from_file or reload call
    clock, load_result, load_text,
    \* the hot-reload watcher thread (hot_reload.py 75-93) inside load_from_file
    rl_pc, rl_new,
    \* a reader of the registry properties (registry.py 365-383)
    rd_pc, rd_obs, installs,
    \* one run of APIVersionMiddleware.__call__
    pc, req, today, version_id, metadata, response, app_called, scope_bound,
    stages, default_version, start_versions,
    \* precedence resolver under test
    pr_specs, pr_default, pr_out,
    \* RateLimiter
    states, now, rl_result, admitted,
    \* threads inside RateLimiter.check_limit: position and local variables
    rt_pc, rt_loc,
    \* CircuitBreaker attributes (circuit_breaker.py 78-81)
    cb_state, failure_count, success_count, last_failure_time,
    \* environment of the breaker: time.time(), the position of the guarded
    \* call in progress, the record of the latest call, and its history
    cb_now, cb_pc, cb_last, cb_hist,
    \* threads inside guarded calls on one breaker
    ct_pc, ct_loc, ct_done,
    \* the downstream application of the request in progress, and the body
    \* sent by the "except Exception" handler of __call__
    app_behaviour, internal_error_body,
    \* a function under test: its arguments and what it returned or raised
    fn_args, fn_result

regVars  == <<versions, config_path, last_loaded, config_checksum, clock,
              load_result, load_text>>
thrVars  == <<rl_pc, rl_new, rd_pc, rd_obs, installs>>
fltVars  == <<app_behaviour, internal_error_body>>
pipeVars == <<pc, req, today, version_id, metadata, response, app_called,
              scope_bound, stages, default_version, start_versions, fltVars>>
precVars == <<pr_specs, pr_default, pr_out>>
rateVars == <<states, now, rl_result, admitted, rt_pc, rt_loc>>
cbVars   == <<cb_state, failure_count, success_count, last_failure_time,
              cb_now, cb_pc, cb_last, cb_hist, ct_pc, ct_loc, ct_done>>
fnVars   == <<fn_args, fn_result>>
vars     == <<regVars, thrVars, pipeVars, precVars, rateVars, cbVars, fnVars>>

-----------------------------------------------------------------------------
(* Optional values and strings                                             *)

None    == <<>>
Some(x) == <<x>>
IsNone(o) == o = <<>>
IsSome(o) == o # <<>>
Val(o)  == o[1]

Digits     == {"0", "1", "2", "3", "4", "5", "6", "7", "8", "9"}
LowerAlpha == {"a", "b", "c", "d", "e", "f", "g", "h", "i", "j", "k", "l", "m",
               "n", "o", "p", "q", "r", "s", "t", "u", "v", "w", "x", "y", "z"}
\* codepoints < 32 or = 127
ControlChars == {"LF", "CR", "TAB", "DEL"}
\* what str.strip() removes
Whitespace   == {"SP", "LF", "CR", "TAB"}

AllIn(s, lo, hi, S) == \A i \in lo..hi : s[i] \in S

\* re.compile(r"^v[0-9]+(-[a-z]+)?$").match(s): "$" also matches just before
\* one trailing line feed.
FullVersionId(s) ==
    /\ Len(s) >= 2
    /\ s[1] = "v"
    /\ \E n \in 2..Len(s) :
          /\ AllIn(s, 2, n, Digits)
          /\ \/ n = Len(s)
             \/ /\ n + 2 <= Len(s)
                /\ s[n + 1] = "-"
                /\ AllIn(s, n + 2, Len(s), LowerAlpha)

VERSION_ID_PATTERN(s) ==
    \/ FullVersionId(s)
    \/ /\ Len(s) >= 1
       /\ s[Len(s)] = "LF"
       /\ FullVersionId(SubSeq(s, 1, Len(s) - 1))

\* Version identifiers used as inputs.
V1   == <<"v", "1">>
V2   == <<"v", "2">>
V3   == <<"v", "3">>
V3B  == <<"v", "3", "-", "b">>
V9   == <<"v", "9">>
BadV == <<"V", "1">>

-----------------------------------------------------------------------------
(* VersionMetadata (core/version.py)                                       *)

Statuses == {"current", "deprecated", "sunset", "prerelease"}

MinSunsetWindowDays == 365

\* migration_guide_url.startswith("http://") or ("https://") or ("/")
UrlPrefixOK(u) == u \in {"https://docs/m", "http://docs/m", "/docs/m"}

\* __post_init__ without the test "sunset_date set, deprecation_date not set"
PostInitOK_sunset_alone(m) ==
    /\ VERSION_ID_PATTERN(m.version_id)
    /\ ~(m.status = "deprecated" /\ IsNone(m.deprecation_date))
    /\ ~(m.status = "sunset" /\ IsNone(m.sunset_date))
    /\ ~(IsSome(m.deprecation_date) /\ m.release_date > Val(m.deprecation_date))
    /\ (IsSome(m.sunset_date) /\ IsSome(m.deprecation_date)) =>
          /\ ~(Val(m.deprecation_date) > Val(m.sunset_date))
          /\ ~(Val(m.sunset_date) - Val(m.deprecation_date) < MinSunsetWindowDays)
    /\ IsSome(m.migration_guide_url) => UrlPrefixOK(Val(m.migration_guide_url))
\* __post_init__ with "days_diff <= 365" in place of "days_diff < 365"
PostInitOK_window_strict(m) ==
    /\ VERSION_ID_PATTERN(m.version_id)
    /\ ~(m.status = "deprecated" /\ IsNone(m.deprecation_date))
    /\ ~(m.status = "sunset" /\ IsNone(m.sunset_date))
    /\ ~(IsSome(m.deprecation_date) /\ m.release_date > Val(m.deprecation_date))
    /\ IsSome(m.sunset_date) =>
          /\ IsSome(m.deprecation_date)
          /\ ~(Val(m.deprecation_date) > Val(m.sunset_date))
          /\ ~(Val(m.sunset_date) - Val(m.deprecation_date) <= MinSunsetWindowDays)
    /\ IsSome(m.migration_guide_url) => UrlPrefixOK(Val(m.migration_guide_url))
\* VersionMetadata.__post_init__: TRUE iff construction does not raise.
PostInitOK(m) ==
    /\ VERSION_ID_PATTERN(m.version_id)
    /\ ~(m.status = "deprecated" /\ IsNone(m.deprecation_date))
    /\ ~(m.status = "sunset" /\ IsNone(m.sunset_date))
    /\ ~(IsSome(m.deprecation_date) /\ m.release_date > Val(m.deprecation_date))
    /\ IsSome(m.sunset_date) =>
          /\ IsSome(m.deprecation_date)
          /\ ~(Val(m.deprecation_date) > Val(m.sunset_date))
          /\ ~(Val(m.sunset_date) - Val(m.deprecation_date) < MinSunsetWindowDays)
    /\ IsSome(m.migration_guide_url) => UrlPrefixOK(Val(m.migration_guide_url))

is_deprecated(m) == m.status \in {"deprecated", "sunset"}
is_prerelease(m) == m.status = "prerelease"

-----------------------------------------------------------------------------
(* Configuration source and VersionRegistry (core/registry.py)             *)

\* Day ordinals used in configurations: Day.sunset - Day.dep is exactly the
\* minimum window, Day.short - Day.dep is one day less.
Day == [release |-> 0, dep |-> 10, short |-> 374, sunset |-> 375, late |-> 376]

\* A date string of the configuration: ISO text for a day, or unparsable text.
Iso(d)     == <<"iso", d>>
BadDateText == <<"bad", 0>>

\* date.fromisoformat(value): raises on text that is not YYYY-MM-DD
parse_date_ok(t) == t[1] = "iso"
parse_date(t)    == t[2]

\* Python truthiness of an optional str (None and "" are falsy)
Truthy(o) == IsSome(o) /\ Val(o) # <<>>

\* One entry of the "versions" mapping of the configuration file.
Entry(st, rel, dep, sun, bcf, url, opt) ==
    [status |-> st, release_date |-> rel, deprecation_date |-> dep,
     sunset_date |-> sun, breaking_changes_from |-> bcf,
     migration_guide_url |-> url, opt_in_required |-> opt]

Rel0 == Some(Iso(Day.release))
Dep0 == Some(Iso(Day.dep))
Sun0 == Some(Iso(Day.sunset))

EntryPool ==
    { Entry(Some("current"),    Rel0, None, None, None, None, FALSE),
      Entry(Some("current"),    Rel0, Dep0, Sun0, Some(V1), None, FALSE),
      Entry(Some("deprecated"), Rel0, Dep0, None, None, Some("/docs/m"), FALSE),
      Entry(Some("deprecated"), Rel0, Dep0, Sun0, Some(V2), None, FALSE),
      Entry(Some("deprecated"), Rel0, None, None, None, None, FALSE),
      Entry(Some("deprecated"), Rel0, Dep0, None, Some(V9), None, FALSE),
      Entry(Some("deprecated"), Rel0, Dep0, None, None, Some("ftp://m"), FALSE),
      Entry(Some("sunset"),     Rel0, Dep0, Sun0, None, None, FALSE),
      Entry(Some("sunset"),     Rel0, Dep0, Some(Iso(Day.short)), None, None, FALSE),
      Entry(Some("prerelease"), Rel0, None, None, Some(V2), None, TRUE),
      Entry(Some("prerelease"), Rel0, None, None, None, None, FALSE),
      Entry(Some("prerelease"), Rel0, Dep0, Sun0, None, None, TRUE),
      Entry(Some("retired"),    Rel0, None, None, None, None, FALSE),
      Entry(Some("current"),    None, None, None, None, None, FALSE),
      Entry(Some("deprecated"), Rel0, Some(BadDateText), None, None, None, FALSE) }

\* the entries configuration texts read by load and reload are made of
LoadEntryPool ==
    { Entry(Some("current"),    Rel0, None, None, None, None, FALSE),
      Entry(Some("current"),    Rel0, Dep0, Sun0, Some(V1), None, FALSE),
      Entry(Some("deprecated"), Rel0, Dep0, Sun0, Some(V2), None, FALSE),
      Entry(Some("deprecated"), Rel0, None, None, None, None, FALSE),
      Entry(Some("deprecated"), Rel0, Dep0, None, Some(V9), None, FALSE),
      Entry(Some("deprecated"), Rel0, Dep0, None, Some(<<>>), None, FALSE),
      Entry(Some("sunset"),     Rel0, Dep0, Some(Iso(Day.short)), None, None, FALSE) }

ConfigIds == {V1, V2}

File(k, e) == [kind |-> k, entries |-> e]

DictFilesOf(pool) ==
    { File("dict", e) :
        e \in UNION { [S -> pool] : S \in (SUBSET ConfigIds) \ {{}} } }
SpecialFiles ==
    { File("missing", <<>>), File("yamlerror", <<>>), File("empty", <<>>),
      File("noversions", <<>>), File("notdict", <<>>),
      File("dict", [i \in {BadV} |->
                      Entry(Some("current"), Rel0, None, None, None, None, FALSE)]) }
\* Configuration texts the file may hold when load or reload reads it.
Files == DictFilesOf(LoadEntryPool) \cup SpecialFiles
\* Configurations a deployment may have been started with.
DeployedFiles == DictFilesOf(EntryPool)

Paths == {"a.yaml", "b.yaml"}

\* hashlib.sha256(config_text.encode()).hexdigest()
Checksum(text) == <<"sha256", text>>

\* VersionRegistry._parse_version_metadata: TRUE iff no error is raised
parse_version_metadata_fields_ok(data) ==
    /\ IsSome(data.status)
    /\ IsSome(data.release_date)
    /\ Val(data.status) \in Statuses
    /\ parse_date_ok(Val(data.release_date))
    /\ IsSome(data.deprecation_date) => parse_date_ok(Val(data.deprecation_date))
    /\ IsSome(data.sunset_date) => parse_date_ok(Val(data.sunset_date))

OptDate(o) == IF IsSome(o) THEN Some(parse_date(Val(o))) ELSE None

\* the VersionMetadata it constructs (before __post_init__ validation)
parse_version_metadata_value(id, data) ==
    [version_id            |-> id,
     status                |-> Val(data.status),
     release_date          |-> parse_date(Val(data.release_date)),
     deprecation_date      |-> OptDate(data.deprecation_date),
     sunset_date           |-> OptDate(data.sunset_date),
     breaking_changes_from |-> data.breaking_changes_from,
     migration_guide_url   |-> data.migration_guide_url,
     opt_in_required       |-> data.opt_in_required]

parse_version_metadata_ok(id, data) ==
    /\ parse_version_metadata_fields_ok(data)
    /\ PostInitOK(parse_version_metadata_value(id, data))

\* registry.py 132-141, with the check weakened to "at least one"
current_count_ok_atleast(n) == n >= 1
\* registry.py 132-141: exactly one current version
current_count_ok(n) == n = 1

\* registry.py 143-150: every truthy breaking_changes_from is a key
references_ok(vs) ==
    \A id \in DOMAIN vs :
        Truthy(vs[id].breaking_changes_from) =>
            Val(vs[id].breaking_changes_from) \in DOMAIN vs

\* the local dict "versions" built by the loop at registry.py 116-130
BuiltVersions(text) ==
    [id \in DOMAIN text.entries |->
        parse_version_metadata_value(id, text.entries[id])]

\* load_from_file up to line 150: TRUE iff nothing is raised
load_ok(text) ==
    /\ text.kind = "dict"
    /\ \A id \in DOMAIN text.entries :
          parse_version_metadata_ok(id, text.entries[id])
    /\ current_count_ok(
          Cardinality({id \in DOMAIN text.entries :
                          Val(text.entries[id].status) = "current"}))
    /\ references_ok(BuiltVersions(text))

\* VersionRegistry.get_version
get_version(vs, id) == IF id \in DOMAIN vs THEN Some(vs[id]) ELSE None

CurrentIds(vs) == {id \in DOMAIN vs : vs[id].status = "current"}

\* VersionRegistry.get_current_version
get_current_version(vs) ==
    IF CurrentIds(vs) = {} THEN None
    ELSE Some(vs[CHOOSE id \in CurrentIds(vs) : TRUE])

MaxLoads == 3

\* load_from_file that installs the dict as it is built, before validating
load_from_file_early(path, text) ==
    /\ clock < MaxLoads
    /\ clock' = clock + 1
    /\ load_text' = text
    /\ IF text.kind = "dict" /\ \A id \in DOMAIN text.entries :
            parse_version_metadata_fields_ok(text.entries[id])
       THEN /\ versions' = BuiltVersions(text)
            /\ config_path' = Some(path)
            /\ last_loaded' = Some(clock)
            /\ config_checksum' = Some(Checksum(text))
            /\ load_result' = IF load_ok(text) THEN "ok" ELSE "error"
       ELSE /\ load_result' = "error"
            /\ UNCHANGED <<versions, config_path, last_loaded, config_checksum>>

\* VersionRegistry.load_from_file, called with no other thread running
load_from_file(path, text) ==
    /\ clock < MaxLoads
    /\ clock' = clock + 1
    /\ load_text' = text
    /\ IF load_ok(text)
       THEN /\ versions' = BuiltVersions(text)
            /\ config_path' = Some(path)
            /\ last_loaded' = Some(clock)
            /\ config_checksum' = Some(Checksum(text))
            /\ load_result' = "ok"
       ELSE /\ load_result' = "error"
            /\ UNCHANGED <<versions, config_path, last_loaded, config_checksum>>

\* VersionRegistry.reload
reload(text) ==
    IF IsNone(config_path)
    THEN /\ clock < MaxLoads
         /\ clock' = clock + 1
         /\ load_text' = text
         /\ load_result' = "error"
         /\ UNCHANGED <<versions, config_path, last_loaded, config_checksum>>
    ELSE load_from_file(Val(config_path), text)

-----------------------------------------------------------------------------
(* String helpers                                                          *)

RECURSIVE LStrip(_)
LStrip(s) == IF s # <<>> /\ Head(s) \in Whitespace THEN LStrip(Tail(s)) ELSE s

RECURSIVE RStrip(_)
RStrip(s) ==
    IF s # <<>> /\ s[Len(s)] \in Whitespace
    THEN RStrip(SubSeq(s, 1, Len(s) - 1)) ELSE s

\* str.strip()
Strip(s) == RStrip(LStrip(s))

IsPrintable(c) == c \notin ControlChars

\* str.lower() on the letters that occur in the inputs
LowerChar(c) ==
    CASE c = "T" -> "t" [] c = "R" -> "r" [] c = "U" -> "u" [] c = "E" -> "e"
      [] c = "V" -> "v" [] OTHER -> c
Lower(s) == [i \in 1..Len(s) |-> LowerChar(s[i])]

\* utils/validation.py sanitize_version_id
sanitize_version_id(id) == Strip(SelectSeq(id, IsPrintable))

MaxVersionIdLength == 20

\* utils/validation.py validate_version_format: TRUE iff (True, None)
validate_version_format(id) ==
    /\ ~(Len(id) < 2)
    /\ ~(Len(id) > MaxVersionIdLength)
    /\ ~(\E i \in 1..Len(id) : id[i] \in ControlChars)
    /\ VERSION_ID_PATTERN(id)

-----------------------------------------------------------------------------
(* Specification extraction (middleware/parser.py)                         *)

VersionSpecification(id, src, rank) ==
    [version_id |-> id, source |-> src, raw_value |-> id, precedence_rank |-> rank]

\* bytes.lower() of a header name
LowerName(n) ==
    CASE n = "X-API-Version" -> "x-api-version"
      [] n = "API-Version" -> "api-version"
      [] n = "X-API-Prerelease-Opt-In" -> "x-api-prerelease-opt-in"
      [] n = "X-API-Key" -> "x-api-key"
      [] n = "Authorization" -> "authorization"
      [] n = "X-Consumer-ID" -> "x-consumer-id"
      [] OTHER -> n

\* dict(pairs): keys in first-insertion order, each with its last value
RECURSIVE DictOf(_)
DictOf(pairs) ==
    IF pairs = <<>> THEN <<>>
    ELSE LET init == SubSeq(pairs, 1, Len(pairs) - 1)
             last == pairs[Len(pairs)]
             d    == DictOf(init)
         IN IF \E i \in 1..Len(d) : d[i][1] = last[1]
            THEN [i \in 1..Len(d) |->
                    IF d[i][1] = last[1] THEN <<d[i][1], last[2]>> ELSE d[i]]
            ELSE Append(d, last)

VersionHeaderNames == {"x-api-version", "api-version"}

\* parser.py _extract_from_header: the first recognised header whose
\* stripped value is not empty
extract_from_header(headers) ==
    LET hit == {i \in 1..Len(headers) :
                  /\ LowerName(headers[i][1]) \in VersionHeaderNames
                  /\ Strip(headers[i][2]) # <<>>}
    IN IF hit = {} THEN None
       ELSE LET i == CHOOSE i \in hit : \A j \in hit : i <= j
            IN Some(VersionSpecification(Strip(headers[i][2]), "header", 1))

\* parser.py _extract_from_url: ^/v(\d+(?:-[a-z]+)?)/
extract_from_url(path) ==
    LET ends == {e \in 3..(Len(path) - 1) :
                   /\ path[1] = "/"
                   /\ FullVersionId(SubSeq(path, 2, e))
                   /\ path[e + 1] = "/"}
    IN IF ends = {} THEN None
       ELSE Some(VersionSpecification(
                SubSeq(path, 2, CHOOSE e \in ends : TRUE), "url_path", 2))

\* parser.py _extract_from_query; the query is given as the decoded
\* (key, value) pairs, of which parse_qs drops those with an empty value
extract_from_query(query) ==
    LET vals == {i \in 1..Len(query) :
                    query[i][1] = "version" /\ query[i][2] # <<>>}
    IN IF vals = {} THEN None
       ELSE LET i == CHOOSE i \in vals : \A j \in vals : i <= j
            IN IF Strip(query[i][2]) # <<>>
               THEN Some(VersionSpecification(Strip(query[i][2]), "query_param", 3))
               ELSE None

\* extraction that stops at the first source yielding a candidate
extract_version_from_request_first(scope) ==
    IF IsSome(extract_from_header(DictOf(scope.headers)))
    THEN extract_from_header(DictOf(scope.headers))
    ELSE extract_from_url(scope.path) \o extract_from_query(scope.query)
\* parser.py extract_version_from_request
extract_version_from_request(scope) ==
    extract_from_header(DictOf(scope.headers))
        \o extract_from_url(scope.path)
        \o extract_from_query(scope.query)

-----------------------------------------------------------------------------
(* Precedence resolution (middleware/precedence.py)                        *)

\* sources in order of first appearance (the keys of by_source)
RECURSIVE SourcesOf(_)
SourcesOf(specs) ==
    IF specs = <<>> THEN <<>>
    ELSE LET init == SourcesOf(SubSeq(specs, 1, Len(specs) - 1))
             src  == specs[Len(specs)].source
         IN IF \E i \in 1..Len(init) : init[i] = src THEN init
            ELSE Append(init, src)

SpecsOfSource(specs, src) == SelectSeq(specs, LAMBDA sp : sp.source = src)

IdsOf(specs) == {specs[i].version_id : i \in 1..Len(specs)}

\* a conflict test that ignores whether the values differ
source_conflicts_any(source_specs) == Len(source_specs) > 1
\* precedence.py 98-101
source_conflicts(source_specs) ==
    /\ Len(source_specs) > 1
    /\ Cardinality(IdsOf(source_specs)) > 1

\* precedence.py _check_same_source_conflicts: None, or the raised
\* VersionConflictError (its source and its detected_specifications)
check_same_source_conflicts(specs) ==
    LET srcs == SourcesOf(specs)
        bad  == {i \in 1..Len(srcs) :
                    source_conflicts(SpecsOfSource(specs, srcs[i]))}
    IN IF bad = {} THEN None
       ELSE LET i  == CHOOSE i \in bad : \A j \in bad : i <= j
                ss == SpecsOfSource(specs, srcs[i])
            IN Some([code   |-> "VERSION_CONFLICT",
                     status |-> 400,
                     source |-> srcs[i],
                     detected_specifications |->
                        [k \in 1..Len(ss) |->
                            [source |-> ss[k].source, value |-> ss[k].version_id]]])

\* sorted(specs, key=lambda s: s.precedence_rank): stable insertion sort
RECURSIVE SortedByRank(_)
SortedByRank(specs) ==
    IF specs = <<>> THEN <<>>
    ELSE LET init == SortedByRank(SubSeq(specs, 1, Len(specs) - 1))
             x    == specs[Len(specs)]
             k    == Cardinality({i \in 1..Len(init) :
                                    init[i].precedence_rank <= x.precedence_rank})
         IN SubSeq(init, 1, k) \o <<x>> \o SubSeq(init, k + 1, Len(init))

\* the winner taken without sorting
pick_winner_first(specs) == specs[1].version_id
\* precedence.py 62-66
pick_winner(specs) == SortedByRank(specs)[1].version_id

\* precedence.py resolve_version_precedence: the id returned, or the error raised
resolve_version_precedence(specs, default, precedence_order) ==
    IF specs = <<>> THEN [ok |-> TRUE, value |-> default, error |-> None]
    ELSE IF IsSome(check_same_source_conflicts(specs))
         THEN [ok |-> FALSE, value |-> <<>>,
               error |-> check_same_source_conflicts(specs)]
         ELSE [ok |-> TRUE, value |-> pick_winner(specs), error |-> None]

-----------------------------------------------------------------------------
(* Ordering of strings (Python compares str by codepoint)                  *)

CodeOrder ==
    <<"TAB", "LF", "CR", "SP", "-", "/", "0", "1", "2", "3", "4", "5", "6",
      "7", "8", "9", "E", "R", "T", "U", "V", "a", "b", "c", "d", "e", "f",
      "g", "h", "i", "j", "k", "l", "m", "n", "o", "p", "q", "r", "s", "t",
      "u", "v", "w", "x", "y", "z", "DEL">>
Code(c) == CHOOSE i \in 1..Len(CodeOrder) : CodeOrder[i] = c

RECURSIVE StrLess(_, _)
StrLess(a, b) ==
    IF b = <<>> THEN FALSE
    ELSE IF a = <<>> THEN TRUE
    ELSE IF Head(a) = Head(b) THEN StrLess(Tail(a), Tail(b))
    ELSE Code(Head(a)) < Code(Head(b))

\* sorted(...) of a set of distinct strings
RECURSIVE SortedStrs(_)
SortedStrs(S) ==
    IF S = {} THEN <<>>
    ELSE LET m == CHOOSE x \in S : \A y \in S \ {x} : StrLess(x, y)
         IN <<m>> \o SortedStrs(S \ {m})

\* list_active_versions with the prerelease test ignoring its flag
list_active_versions_no_flag(vs, include_prerelease, include_sunset) ==
    SortedStrs({id \in DOMAIN vs :
                  /\ ~(vs[id].status = "sunset" /\ ~include_sunset)
                  /\ ~(vs[id].status = "prerelease")})
\* VersionRegistry.list_active_versions, as the list of version ids
list_active_versions(vs, include_prerelease, include_sunset) ==
    SortedStrs({id \in DOMAIN vs :
                  /\ ~(vs[id].status = "sunset" /\ ~include_sunset)
                  /\ ~(vs[id].status = "prerelease" /\ ~include_prerelease)})

-----------------------------------------------------------------------------
(* Lifecycle checks (handlers/deprecation.py, handlers/prerelease.py)      *)

\* is_sunset with the boundary day counted as past
is_sunset_inclusive(m, day) ==
    \/ m.status = "sunset"
    \/ IsSome(m.sunset_date) /\ day >= Val(m.sunset_date)
\* handlers/deprecation.py is_sunset
is_sunset(m, day) ==
    IF m.status = "sunset" THEN TRUE
    ELSE IF IsNone(m.sunset_date) THEN FALSE
    ELSE day > Val(m.sunset_date)

TrueStr == <<"t", "r", "u", "e">>

\* the opt-in comparison without lower()
check_prerelease_access_exact(m, opt_in_value) ==
    \/ ~is_prerelease(m)
    \/ ~m.opt_in_required
    \/ ~(IsNone(opt_in_value) \/ Val(opt_in_value) # TrueStr)
\* handlers/prerelease.py check_prerelease_access: TRUE iff nothing is raised
check_prerelease_access(m, opt_in_value) ==
    IF ~is_prerelease(m) THEN TRUE
    ELSE IF ~m.opt_in_required THEN TRUE
    ELSE ~(IsNone(opt_in_value) \/ Lower(Val(opt_in_value)) # TrueStr)

\* handlers/prerelease.py extract_opt_in_header
extract_opt_in_header(headers) ==
    LET hit == {i \in 1..Len(headers) :
                  LowerName(headers[i][1]) = "x-api-prerelease-opt-in"}
    IN IF hit = {} THEN None
       ELSE Some(headers[CHOOSE i \in hit : \A j \in hit : i <= j][2])

-----------------------------------------------------------------------------
(* APIVersionMiddleware (middleware/__init__.py)                           *)

NoHeaders ==
    [x_api_version |-> None, deprecation |-> None, sunset |-> None,
     link |-> None, stability |-> None]

\* one http.response.start message
Msg(status, code, hdrs, available) ==
    [status |-> status, code |-> code, headers |-> hdrs, available |-> available]

ErrorMsg(status, code) == Msg(status, code, NoHeaders, <<>>)

\* headers added by send_wrapper (middleware 213-239)
send_wrapper_headers(m) ==
    [x_api_version |-> Some(m.version_id),
     deprecation   |-> IF is_deprecated(m) /\ IsSome(m.sunset_date)
                       THEN Some(<<"date", Val(m.sunset_date)>>) ELSE None,
     sunset        |-> IF is_deprecated(m) /\ IsSome(m.sunset_date)
                       THEN Some(<<"http-date", Val(m.sunset_date)>>) ELSE None,
     link          |-> IF is_deprecated(m) /\ IsSome(m.migration_guide_url)
                       THEN m.migration_guide_url ELSE None,
     stability     |-> IF is_prerelease(m) THEN Some("prerelease") ELSE None]

DefaultPrecedence == <<"header", "url", "query">>

\* __call__ entry for an HTTP scope
StartRequest(r) ==
    /\ pc \in {"idle", "done"}
    /\ req' = r
    /\ pc' = "resolve"
    /\ version_id' = <<>>
    /\ metadata' = None
    /\ response' = <<>>
    /\ app_called' = FALSE
    /\ scope_bound' = FALSE
    /\ stages' = <<>>
    /\ start_versions' = versions
    /\ UNCHANGED <<today, default_version>>

\* middleware 119-142: extract, resolve, sanitize, validate
ResolveStage ==
    /\ pc = "resolve"
    /\ LET r  == resolve_version_precedence(
                    extract_version_from_request(req), default_version,
                    DefaultPrecedence)
           id == sanitize_version_id(r.value)
       IN IF ~r.ok
          THEN \* VersionConflictError reaches "except Exception" (189-196)
               /\ response' = Append(response,
                                     ErrorMsg(500, "INTERNAL_SERVER_ERROR"))
               /\ stages' = stages \o <<"resolve">>
               /\ pc' = "done"
               /\ UNCHANGED version_id
          ELSE IF ~validate_version_format(id)
          THEN /\ response' = Append(response,
                                     ErrorMsg(400, "INVALID_VERSION_FORMAT"))
               /\ stages' = stages \o <<"resolve", "sanitize", "validate">>
               /\ pc' = "done"
               /\ version_id' = id
          ELSE /\ version_id' = id
               /\ stages' = stages \o <<"resolve", "sanitize", "validate">>
               /\ pc' = "lookup"
               /\ UNCHANGED response
    /\ UNCHANGED <<req, today, metadata, app_called, scope_bound,
                   default_version, start_versions>>

\* middleware 145-146: metadata = self.registry.get_version(version_id)
LookupStage ==
    /\ pc = "lookup"
    /\ metadata' = get_version(versions, version_id)
    /\ stages' = Append(stages, "lookup")
    /\ pc' = IF IsNone(get_version(versions, version_id))
             THEN "notfound" ELSE "sunset"
    /\ UNCHANGED <<req, today, version_id, response, app_called, scope_bound,
                   default_version, start_versions>>

\* middleware 147-154: VersionNotFoundError with list_active_versions()
NotFoundStage ==
    /\ pc = "notfound"
    /\ response' = Append(response,
                          Msg(404, "VERSION_NOT_FOUND", NoHeaders,
                              list_active_versions(versions, FALSE, FALSE)))
    /\ pc' = "done"
    /\ UNCHANGED <<req, today, version_id, metadata, app_called, scope_bound,
                   stages, default_version, start_versions>>

\* the sunset check with the "return" after the error response left out
SunsetStageFallThrough ==
    /\ pc = "sunset"
    /\ stages' = Append(stages, "sunset")
    /\ response' = IF is_sunset(Val(metadata), today)
                   THEN Append(response, ErrorMsg(410, "VERSION_SUNSET"))
                   ELSE response
    /\ pc' = "prerelease"
    /\ UNCHANGED <<req, today, version_id, metadata, app_called, scope_bound,
                   default_version, start_versions>>

\* middleware 156-167
SunsetStage ==
    /\ pc = "sunset"
    /\ stages' = Append(stages, "sunset")
    /\ IF is_sunset(Val(metadata), today)
       THEN /\ response' = Append(response, ErrorMsg(410, "VERSION_SUNSET"))
            /\ pc' = "done"
       ELSE /\ pc' = "prerelease"
            /\ UNCHANGED response
    /\ UNCHANGED <<req, today, version_id, metadata, app_called, scope_bound,
                   default_version, start_versions>>

\* middleware 169-177
PrereleaseStage ==
    /\ pc = "prerelease"
    /\ stages' = Append(stages, "prerelease")
    /\ IF /\ is_prerelease(Val(metadata))
          /\ ~check_prerelease_access(
                Val(metadata), extract_opt_in_header(DictOf(req.headers)))
       THEN /\ response' = Append(response,
                                  ErrorMsg(403, "PRERELEASE_OPT_IN_REQUIRED"))
            /\ pc' = "done"
       ELSE /\ pc' = "call"
            /\ UNCHANGED response
    /\ UNCHANGED <<req, today, version_id, metadata, app_called, scope_bound,
                   default_version, start_versions>>

\* middleware 179-187: bind the scope and run the application, which sends
\* its response start through send_wrapper
CallApp ==
    /\ pc = "call"
    /\ scope_bound' = TRUE
    /\ app_called' = TRUE
    /\ response' = Append(response,
                          Msg(200, "OK", send_wrapper_headers(Val(metadata)), <<>>))
    /\ pc' = "done"
    /\ UNCHANGED <<req, today, version_id, metadata, stages, default_version,
                   start_versions>>

-----------------------------------------------------------------------------
(* RateLimiter (security/rate_limit.py)                                    *)

TicksPerSecond == 2
WindowSeconds  == 2
LimitAuth      == 2
LimitAnon      == 1
BurstAuth      == 3
BurstAnon      == 2
MaxTime        == 6

Consumers == {"c1", "c2"}

\* RateLimitConfig selected at rate_limit.py 124-127
ConfigFor(is_authenticated) ==
    IF is_authenticated
    THEN [requests_per_minute |-> LimitAuth, burst_capacity |-> BurstAuth,
          window_seconds |-> WindowSeconds]
    ELSE [requests_per_minute |-> LimitAnon, burst_capacity |-> BurstAnon,
          window_seconds |-> WindowSeconds]

\* seconds to ticks
Ticks(seconds) == seconds * TicksPerSecond

\* RateLimitState() created at rate_limit.py 130-131
NewState(t) == [request_count |-> 0, window_start |-> t, last_request |-> t]

\* the state of consumer_id after lines 129-133
StateOf(st, consumer_id, t) ==
    IF consumer_id \in DOMAIN st THEN st[consumer_id] ELSE NewState(t)

\* the window test with a strict comparison
window_expired_strict(state, config, t) ==
    t - state.window_start > Ticks(config.window_seconds)
\* rate_limit.py 137-138
window_expired(state, config, t) ==
    t - state.window_start >= Ticks(config.window_seconds)

\* the window reset that leaves window_start as it was
AfterWindow_keep_start(state, config, t) ==
    IF window_expired(state, config, t)
    THEN [state EXCEPT !.request_count = 0]
    ELSE state
\* the state after the window test (rate_limit.py 136-141)
AfterWindow(state, config, t) ==
    IF window_expired(state, config, t)
    THEN [state EXCEPT !.window_start = t, !.request_count = 0]
    ELSE state

Max(a, b) == IF a >= b THEN a ELSE b

\* int(reset_at - current_time) for a non-negative difference given in ticks
IntSeconds(ticks) == ticks \div TicksPerSecond

\* a check that stamps last_request on a rejection too
check_limit_stamps_rejection(config, st, consumer_id, t) ==
    LET s1     == AfterWindow(StateOf(st, consumer_id, t), config, t)
        reset  == s1.window_start + Ticks(config.window_seconds)
    IN IF s1.request_count < config.requests_per_minute
       THEN [state  |-> [s1 EXCEPT !.request_count = s1.request_count + 1,
                                   !.last_request = t],
             result |-> [allowed |-> TRUE,
                         remaining |-> config.requests_per_minute
                                         - (s1.request_count + 1),
                         reset_at |-> reset, retry_after |-> None]]
       ELSE [state  |-> [s1 EXCEPT !.last_request = t],
             result |-> [allowed |-> FALSE, remaining |-> 0, reset_at |-> reset,
                         retry_after |-> Some(Max(1, IntSeconds(reset - t)))]]
\* a check that admits up to burst_capacity requests in a window
check_limit_burst(config, st, consumer_id, t) ==
    LET s1     == AfterWindow(StateOf(st, consumer_id, t), config, t)
        reset  == s1.window_start + Ticks(config.window_seconds)
    IN IF s1.request_count < config.burst_capacity
       THEN [state  |-> [s1 EXCEPT !.request_count = s1.request_count + 1,
                                   !.last_request = t],
             result |-> [allowed |-> TRUE,
                         remaining |-> Max(0, config.requests_per_minute
                                                - (s1.request_count + 1)),
                         reset_at |-> reset, retry_after |-> None]]
       ELSE [state  |-> s1,
             result |-> [allowed |-> FALSE, remaining |-> 0, reset_at |-> reset,
                         retry_after |-> Some(Max(1, IntSeconds(reset - t)))]]
\* rate_limit.py 129-167: the new state of the consumer and the result under
\* the selected configuration
check_limit_config(config, st, consumer_id, t) ==
    LET s1     == AfterWindow(StateOf(st, consumer_id, t), config, t)
        reset  == s1.window_start + Ticks(config.window_seconds)
    IN IF s1.request_count < config.requests_per_minute
       THEN [state  |-> [s1 EXCEPT !.request_count = s1.request_count + 1,
                                   !.last_request = t],
             result |-> [allowed |-> TRUE,
                         remaining |-> config.requests_per_minute
                                         - (s1.request_count + 1),
                         reset_at |-> reset, retry_after |-> None]]
       ELSE [state  |-> s1,
             result |-> [allowed |-> FALSE, remaining |-> 0, reset_at |-> reset,
                         retry_after |-> Some(Max(1, IntSeconds(reset - t)))]]

\* RateLimiter.check_limit: the configuration is selected (124-127), then
\* the check is made
check_limit_step(st, consumer_id, is_authenticated, t) ==
    check_limit_config(ConfigFor(is_authenticated), st, consumer_id, t)

\* ghost: allowed checks counted in the consumer's current window, and the
\* authentication statuses the consumer has been checked with
NoAdmission == [n |-> 0, auths |-> {}]

\* one call of RateLimiter.check_limit at the current time, in a limiter
\* whose configuration for is_authenticated is config
CheckLimitUnder(config, consumer_id, is_authenticated) ==
    LET out  == check_limit_config(config, states, consumer_id, now)
        pre  == StateOf(states, consumer_id, now)
        adm  == IF consumer_id \in DOMAIN admitted
                THEN admitted[consumer_id] ELSE NoAdmission
        base == IF out.state.window_start # pre.window_start
                   \/ consumer_id \notin DOMAIN states
                THEN 0 ELSE adm.n
    IN /\ states' = [c \in DOMAIN states \cup {consumer_id} |->
                        IF c = consumer_id THEN out.state ELSE states[c]]
       /\ admitted' = [c \in DOMAIN admitted \cup {consumer_id} |->
                        IF c = consumer_id
                        THEN [n |-> base + (IF out.result.allowed THEN 1 ELSE 0),
                              auths |-> adm.auths \cup {is_authenticated}]
                        ELSE admitted[c]]
       /\ rl_result' = Some([consumer |-> consumer_id,
                             auth |-> is_authenticated,
                             time |-> now,
                             known |-> consumer_id \in DOMAIN states,
                             pre |-> pre,
                             result |-> out.result])
       /\ UNCHANGED <<now, rt_pc, rt_loc>>

\* one call of RateLimiter.check_limit at the current time
CheckLimit(consumer_id, is_authenticated) ==
    CheckLimitUnder(ConfigFor(is_authenticated), consumer_id, is_authenticated)

\* time passes
Tick ==
    /\ now < MaxTime
    /\ now' = now + 1
    /\ UNCHANGED <<states, rl_result, admitted, rt_pc, rt_loc>>

-----------------------------------------------------------------------------
(* Initial conditions of the components                                    *)

NoFile == File("missing", <<>>)
NoSnapshot == [versions |-> <<>>, path |-> "a.yaml", checksum |-> Checksum(NoFile)]
NoObservation == [versions |-> <<>>, last_loaded |-> None, checksum |-> None]
NoRequest == [headers |-> <<>>, path |-> <<>>, query |-> <<>>]

\* class attributes before any load (registry.py 49-53)
RegIdle ==
    /\ versions = <<>>
    /\ config_path = None
    /\ last_loaded = None
    /\ config_checksum = None
    /\ clock = 0
    /\ load_result = "none"
    /\ load_text = NoFile

ThrIdle ==
    /\ rl_pc = "idle"
    /\ rl_new = NoSnapshot
    /\ rd_pc = "idle"
    /\ rd_obs = NoObservation
    /\ installs = {}

\* an application that returns normally, and no internal error sent
AppReturns == [kind |-> "returns", error |-> <<>>]
FltIdle ==
    /\ app_behaviour = AppReturns
    /\ internal_error_body = <<>>

PipeIdle ==
    /\ pc = "idle"
    /\ req = NoRequest
    /\ today = Day.sunset
    /\ version_id = <<>>
    /\ metadata = None
    /\ response = <<>>
    /\ app_called = FALSE
    /\ scope_bound = FALSE
    /\ stages = <<>>
    /\ default_version = V1
    /\ start_versions = <<>>
    /\ FltIdle

\* no function under test
FnIdle ==
    /\ fn_args = <<>>
    /\ fn_result = <<>>

PrecIdle ==
    /\ pr_specs = <<>>
    /\ pr_default = V1
    /\ pr_out = None

\* RateLimiter.__init__ (rate_limit.py 95-106)
RateIdle ==
    /\ states = <<>>
    /\ now = 0
    /\ rl_result = None
    /\ admitted = <<>>
    /\ rt_pc = <<>>
    /\ rt_loc = <<>>

\* CircuitBreaker.__init__ (circuit_breaker.py 75-81), no call made yet
CbIdle ==
    /\ cb_state = "CLOSED"
    /\ failure_count = 0
    /\ success_count = 0
    /\ last_failure_time = None
    /\ cb_now = 0
    /\ cb_pc = "idle"
    /\ cb_last = <<>>
    /\ cb_hist = <<>>
    /\ ct_pc = <<>>
    /\ ct_loc = <<>>
    /\ ct_done = <<>>

-----------------------------------------------------------------------------
(* Registry: load and reload called one at a time                          *)

LoadFromFile ==
    /\ \E path \in Paths, text \in Files : load_from_file(path, text)
    /\ UNCHANGED <<thrVars, pipeVars, precVars, fnVars, rateVars, cbVars>>

Reload ==
    /\ \E text \in Files : reload(text)
    /\ UNCHANGED <<thrVars, pipeVars, precVars, fnVars, rateVars, cbVars>>

InitRegistry == RegIdle /\ ThrIdle /\ PipeIdle /\ PrecIdle /\ FnIdle /\ RateIdle /\ CbIdle
NextRegistry == LoadFromFile \/ Reload
SpecRegistry == InitRegistry /\ [][NextRegistry]_vars

\* entries of a configuration text whose status is "current"
TextCurrentIds(text) ==
    IF text.kind # "dict" THEN {}
    ELSE {id \in DOMAIN text.entries : text.entries[id].status = Some("current")}

TextInvalid(text) ==
    \/ text.kind # "dict"
    \/ \E id \in DOMAIN text.entries :
          ~parse_version_metadata_ok(id, text.entries[id])
    \/ Cardinality(TextCurrentIds(text)) # 1
    \/ \E id \in DOMAIN text.entries :
          LET b == text.entries[id].breaking_changes_from
          IN b # None /\ b # Some(<<>>) /\ Val(b) \notin DOMAIN text.entries

\* C2: a load or reload of an invalid configuration (or a reload with no
\* stored source) raises, and a call that raises leaves the mapping, the
\* source path, the load timestamp and the checksum as they were.
C2_FailedLoadKeepsState ==
    [][ clock' # clock =>
          /\ (TextInvalid(load_text') => load_result' = "error")
          /\ (load_result' = "error" =>
                /\ versions' = versions
                /\ config_path' = config_path
                /\ last_loaded' = last_loaded
                /\ config_checksum' = config_checksum) ]_vars

\* a reload that failed on a configuration with two current entries while
\* an earlier snapshot stayed installed
C2_Witness ==
    /\ load_result = "error"
    /\ IsSome(config_path)
    /\ Cardinality(TextCurrentIds(load_text)) = 2
    /\ versions # <<>>
    /\ config_checksum # Some(Checksum(load_text))

-----------------------------------------------------------------------------
(* Precedence resolver applied to lists of candidates                      *)

MaxSpecs == 3

\* rank given to each source by the extractor (parser.py 139, 174, 213)
RankOf(src) ==
    CASE src = "header" -> 1 [] src = "url_path" -> 2 [] src = "query_param" -> 3

Sources == {"header", "url_path", "query_param"}

Candidates ==
    { VersionSpecification(id, src, RankOf(src)) :
        id \in {V1, V2, V3}, src \in Sources }

SpecLists == UNION { [1..n -> Candidates] : n \in 0..MaxSpecs }

\* one call of resolve_version_precedence
ResolvePrecedence ==
    /\ pr_out = None
    /\ pr_out' = Some(resolve_version_precedence(pr_specs, pr_default,
                                                 DefaultPrecedence))
    /\ UNCHANGED <<pr_specs, pr_default, regVars, thrVars, pipeVars, rateVars, cbVars, fnVars>>

InitPrec ==
    /\ pr_specs \in SpecLists
    /\ pr_default \in {V1, V2}
    /\ pr_out = None
    /\ RegIdle /\ ThrIdle /\ PipeIdle /\ RateIdle /\ CbIdle /\ FnIdle
NextPrec == ResolvePrecedence
SpecPrec == InitPrec /\ [][NextPrec]_vars

\* sources that hold two candidates with different version ids
ConflictingSources(specs) ==
    { src \in Sources :
        \E i, j \in 1..Len(specs) :
            /\ specs[i].source = src
            /\ specs[j].source = src
            /\ specs[i].version_id # specs[j].version_id }

\* C8: with no same-source conflict the resolver returns the version id of
\* a candidate of lowest rank (header 1, url 2, query 3), the default for
\* an empty list, and never raises for cross-source disagreement.
C8_LowestRankWins ==
    IsSome(pr_out) =>
        LET out == Val(pr_out)
        IN /\ pr_specs = <<>> => (out.ok /\ out.value = pr_default)
           /\ (pr_specs # <<>> /\ ConflictingSources(pr_specs) = {}) =>
                 /\ out.ok
                 /\ \E i \in 1..Len(pr_specs) :
                       /\ out.value = pr_specs[i].version_id
                       /\ \A j \in 1..Len(pr_specs) :
                             pr_specs[i].precedence_rank
                                <= pr_specs[j].precedence_rank

\* query=v3, url=v1, header=v2 given in that order with default v1: v2 wins
C8_Witness ==
    /\ pr_specs = << VersionSpecification(V3, "query_param", 3),
                     VersionSpecification(V1, "url_path", 2),
                     VersionSpecification(V2, "header", 1) >>
    /\ pr_default = V1
    /\ pr_out # None
    /\ Val(pr_out).ok
    /\ Val(pr_out).value = V2

\* C9: VersionConflict is raised exactly when some source holds two
\* candidates with different ids; the error names such a source and lists
\* the value of every candidate of that source.
C9_ConflictExactlySameSource ==
    IsSome(pr_out) =>
        LET out == Val(pr_out)
        IN /\ ~out.ok <=> ConflictingSources(pr_specs) # {}
           /\ ~out.ok =>
                LET err == Val(out.error)
                IN /\ err.code = "VERSION_CONFLICT"
                   /\ err.source \in ConflictingSources(pr_specs)
                   /\ { err.detected_specifications[k].value :
                          k \in 1..Len(err.detected_specifications) }
                      = { pr_specs[i].version_id :
                            i \in { i \in 1..Len(pr_specs) :
                                      pr_specs[i].source = err.source } }
                   /\ \A k \in 1..Len(err.detected_specifications) :
                         err.detected_specifications[k].source = err.source

\* two header candidates v1 and v2, and a url candidate, raise a conflict
\* naming the header source and both values
C9_Witness ==
    /\ pr_specs = << VersionSpecification(V1, "header", 1),
                     VersionSpecification(V3, "url_path", 2),
                     VersionSpecification(V2, "header", 1) >>
    /\ pr_out # None
    /\ ~Val(pr_out).ok
    /\ Val(Val(pr_out).error).source = "header"

-----------------------------------------------------------------------------
(* Rate limiter driven by checks and the passing of time                   *)

CheckLimitCall ==
    /\ \E c \in Consumers, a \in BOOLEAN : CheckLimit(c, a)
    /\ UNCHANGED <<regVars, thrVars, pipeVars, precVars, fnVars, cbVars>>

TimePasses ==
    /\ Tick
    /\ UNCHANGED <<regVars, thrVars, pipeVars, precVars, fnVars, cbVars>>

InitRate == RateIdle /\ RegIdle /\ ThrIdle /\ PipeIdle /\ PrecIdle /\ FnIdle /\ CbIdle
NextRate == CheckLimitCall \/ TimePasses
SpecRate == InitRate /\ [][NextRate]_vars

LimitOf(is_authenticated) == IF is_authenticated THEN LimitAuth ELSE LimitAnon
WindowTicks == WindowSeconds * TicksPerSecond

-----------------------------------------------------------------------------
(* Policy pipeline over a registry that does not change during the run     *)

\* the registry after a successful load_from_file(path, text) at time 0
Deployed(text) ==
    /\ versions = BuiltVersions(text)
    /\ config_path = Some("a.yaml")
    /\ last_loaded = Some(0)
    /\ config_checksum = Some(Checksum(text))
    /\ clock = 1
    /\ load_result = "ok"
    /\ load_text = text

\* values of a version header
LongId == <<"v", "1", "2", "3", "4", "5", "6", "7", "8", "9", "0",
            "1", "2", "3", "4", "5", "6", "7", "8", "9", "0">>
VersionHeaderValues ==
    { V1, V2, V3B, BadV, LongId, <<"v">>, <<"SP">>,
      <<"SP", "v", "1", "SP">>, <<"v", "DEL", "2">> }

\* header lists carrying the version
VersionHeaders ==
    { <<>> } \cup { << <<"X-API-Version", v>> >> : v \in VersionHeaderValues }
        \cup { << <<"API-Version", V2>>, <<"X-API-Version", V1>> >>,
               << <<"X-API-Version", V1>>, <<"X-API-Version", V2>> >> }

\* header lists carrying the prerelease opt-in signal
OptInHeaders ==
    { <<>> } \cup
    { << <<"X-API-Prerelease-Opt-In", v>> >> :
        v \in { <<"t", "r", "u", "e">>, <<"T", "R", "U", "E">>,
                <<"T", "r", "u", "e">>, <<"f", "a", "l", "s", "e">>,
                <<"t", "r", "u", "e", "SP">> } }

RootPath == <<"/">>
V2Path   == <<"/", "v", "2", "/", "x">>

Scope(h, p, q) == [headers |-> h, path |-> p, query |-> q]

\* ASGI scopes of type "http"
Requests ==
    { Scope(vh \o oh, RootPath, <<>>) : vh \in VersionHeaders, oh \in OptInHeaders }
      \cup { Scope(vh, p, q) :
               vh \in { <<>>, << <<"X-API-Version", V1>> >> },
               p \in { RootPath, V2Path },
               q \in { <<>>, << <<"version", V1>> >>, << <<"version", <<>> >> >> } }

Todays == {Day.dep, Day.sunset, Day.late}

HttpRequest ==
    /\ \E r \in Requests : StartRequest(r)
    /\ UNCHANGED <<regVars, thrVars, precVars, fnVars, rateVars, cbVars, fltVars>>

InitPipeline ==
    /\ \E text \in DeployedFiles : load_ok(text) /\ Deployed(text)
    /\ ThrIdle /\ PrecIdle /\ FnIdle /\ RateIdle /\ CbIdle
    /\ pc = "idle"
    /\ req = NoRequest
    /\ today \in Todays
    /\ version_id = <<>>
    /\ metadata = None
    /\ response = <<>>
    /\ app_called = FALSE
    /\ scope_bound = FALSE
    /\ stages = <<>>
    /\ default_version \in DOMAIN versions
    /\ start_versions = <<>>
    /\ FltIdle

NextPipeline ==
    \/ HttpRequest
    \/ ResolveStage /\ UNCHANGED <<regVars, thrVars, precVars, fnVars, rateVars, cbVars, fltVars>>
    \/ LookupStage /\ UNCHANGED <<regVars, thrVars, precVars, fnVars, rateVars, cbVars, fltVars>>
    \/ NotFoundStage /\ UNCHANGED <<regVars, thrVars, precVars, fnVars, rateVars, cbVars, fltVars>>
    \/ SunsetStage /\ UNCHANGED <<regVars, thrVars, precVars, fnVars, rateVars, cbVars, fltVars>>
    \/ PrereleaseStage /\ UNCHANGED <<regVars, thrVars, precVars, fnVars, rateVars, cbVars, fltVars>>
    \/ CallApp /\ UNCHANGED <<regVars, thrVars, precVars, fnVars, rateVars, cbVars, fltVars>>

SpecPipeline == InitPipeline /\ [][NextPipeline]_vars

StageOrder ==
    <<"resolve", "sanitize", "validate", "lookup", "sunset", "prerelease">>

IsPrefix(s, t) == Len(s) <= Len(t) /\ SubSeq(t, 1, Len(s)) = s

\* the id a request resolves to, after sanitizing
ResolvedId(r, default) ==
    sanitize_version_id(
        resolve_version_precedence(extract_version_from_request(r), default,
                                   DefaultPrecedence).value)

OptInOf(r) == extract_opt_in_header(DictOf(r.headers))

\* the first stage of the fixed order that fails for a request, with its
\* error, or "none"
FirstFailure(r, vs, day, default) ==
    LET id == ResolvedId(r, default)
    IN IF ~validate_version_format(id)
       THEN [stage |-> "validate", status |-> 400, code |-> "INVALID_VERSION_FORMAT"]
       ELSE IF id \notin DOMAIN vs
       THEN [stage |-> "lookup", status |-> 404, code |-> "VERSION_NOT_FOUND"]
       ELSE IF is_sunset(vs[id], day)
       THEN [stage |-> "sunset", status |-> 410, code |-> "VERSION_SUNSET"]
       ELSE IF ~check_prerelease_access(vs[id], OptInOf(r))
       THEN [stage |-> "prerelease", status |-> 403,
             code |-> "PRERELEASE_OPT_IN_REQUIRED"]
       ELSE [stage |-> "none", status |-> 200, code |-> "OK"]

StagesUpTo(stage) ==
    IF stage = "none" THEN StageOrder
    ELSE SubSeq(StageOrder, 1,
                CHOOSE i \in 1..Len(StageOrder) : StageOrder[i] = stage)

\* C5: the stages run in the order resolve, sanitize, validate, lookup,
\* sunset, prerelease; a finished run has sent exactly one response start,
\* which is the error of the first stage that fails (400, 404, 410, 403) and
\* no stage after it has run; when a stage fails the application is not
\* invoked and nothing is bound to the scope; with no failure all six stages
\* have run and the application is invoked with the scope bound.
C5_FirstFailingStage ==
    /\ IsPrefix(stages, StageOrder)
    /\ Len(response) <= 1
    /\ app_called <=> scope_bound
    /\ (response # <<>> /\ response[1].status # 200) =>
           ~app_called /\ ~scope_bound
    /\ pc = "done" =>
          LET f == FirstFailure(req, versions, today, default_version)
          IN /\ Len(response) = 1
             /\ response[1].status = f.status
             /\ response[1].code = f.code
             /\ stages = StagesUpTo(f.stage)
             /\ f.stage # "none" => ~app_called /\ ~scope_bound
             /\ f.stage = "none" => app_called /\ scope_bound

\* a prerelease version past its sunset date requested without opt-in:
\* both lifecycle checks would fail, the sunset error is the response
C5_Witness ==
    /\ pc = "done"
    /\ IsSome(metadata)
    /\ is_prerelease(Val(metadata))
    /\ Val(metadata).opt_in_required
    /\ IsNone(OptInOf(req))
    /\ IsSome(Val(metadata).sunset_date)
    /\ today > Val(Val(metadata).sunset_date)
    /\ response = <<ErrorMsg(410, "VERSION_SUNSET")>>
    /\ ~app_called

\* C6: a finished request that resolved to a registered version whose
\* status is sunset, or whose sunset_date is before today (whatever the
\* status), got the 410 Sunset error and the application was not invoked;
\* when the sunset_date is today and the status is not sunset the response
\* is not the Sunset error: the request goes on to the prerelease check and
\* is served unless that check rejects it.
C6_SunsetRejected ==
    (pc = "done" /\ version_id \in DOMAIN versions) =>
        LET m == versions[version_id]
        IN /\ (m.status = "sunset"
                 \/ (m.sunset_date # None /\ Val(m.sunset_date) < today)) =>
                  /\ Len(response) = 1
                  /\ response[1].status = 410
                  /\ response[1].code = "VERSION_SUNSET"
                  /\ ~app_called
           /\ (m.status # "sunset" /\ m.sunset_date = Some(today)) =>
                  /\ Len(response) = 1
                  /\ response[1].status \in {200, 403}
                  /\ response[1].status = 200 <=> app_called
                  /\ response[1].status = 403 =>
                        (m.status = "prerelease" /\ m.opt_in_required)

\* the default version has status current and a sunset_date before today;
\* a request naming no version is answered 410
C6_Witness ==
    /\ pc = "done"
    /\ extract_version_from_request(req) = <<>>
    /\ version_id = default_version
    /\ version_id \in DOMAIN versions
    /\ versions[version_id].status = "current"
    /\ versions[version_id].sunset_date # None
    /\ Val(versions[version_id].sunset_date) < today
    /\ response = <<ErrorMsg(410, "VERSION_SUNSET")>>
    /\ ~app_called

\* the spellings of "true" in any letter case
TrueAnyCase ==
    { <<a, b, c, d>> : a \in {"t", "T"}, b \in {"r", "R"},
                       c \in {"u", "U"}, d \in {"e", "E"} }

\* C7: for a finished request whose version passed the sunset check: a
\* prerelease version with opt_in_required gets 403
\* PRERELEASE_OPT_IN_REQUIRED, without the application being invoked, when
\* the opt-in header is absent or is not "true" in some letter case, and is
\* served when it is; a prerelease version without opt_in_required and a
\* version that is not prerelease never get the 403.
C7_PrereleaseOptIn ==
    (/\ pc = "done"
     /\ version_id \in DOMAIN versions
     /\ versions[version_id].status # "sunset"
     /\ ~(versions[version_id].sunset_date # None
            /\ Val(versions[version_id].sunset_date) < today)) =>
        LET m   == versions[version_id]
            opt == OptInOf(req)
            gated == m.status = "prerelease" /\ m.opt_in_required
        IN /\ Len(response) = 1
           /\ (gated /\ (opt = None \/ Val(opt) \notin TrueAnyCase)) =>
                 /\ response[1].status = 403
                 /\ response[1].code = "PRERELEASE_OPT_IN_REQUIRED"
                 /\ ~app_called
           /\ (gated /\ opt # None /\ Val(opt) \in TrueAnyCase) =>
                 /\ response[1].status = 200
                 /\ app_called
           /\ ~gated => response[1].status # 403

\* a prerelease version that requires opt-in, requested with the signal
\* spelled "TRUE", is served
C7_Witness ==
    /\ pc = "done"
    /\ IsSome(metadata)
    /\ Val(metadata).status = "prerelease"
    /\ Val(metadata).opt_in_required
    /\ OptInOf(req) = Some(<<"T", "R", "U", "E">>)
    /\ app_called
    /\ response[1].status = 200
    /\ response[1].headers.stability = Some("prerelease")

-----------------------------------------------------------------------------
(* Hot reload: the watcher thread runs reload() while other threads read   *)
(* the registry (reliability/hot_reload.py, core/registry.py)              *)

\* configuration texts the watched file is rewritten to
OnlyV1 ==
    File("dict", [i \in {V1} |->
        Entry(Some("current"), Rel0, None, None, None, None, FALSE)])
AddV2 ==
    File("dict", [i \in {V1, V2} |->
        IF i = V1
        THEN Entry(Some("current"), Rel0, None, None, None, None, FALSE)
        ELSE Entry(Some("deprecated"), Rel0, Dep0, None, None, Some("/docs/m"), FALSE)])
PromoteV2 ==
    File("dict", [i \in {V1, V2} |->
        IF i = V1
        THEN Entry(Some("deprecated"), Rel0, Dep0, Sun0, Some(V2), None, FALSE)
        ELSE Entry(Some("current"), Rel0, None, None, None, None, FALSE)])
TwoCurrent ==
    File("dict", [i \in {V1, V2} |->
        Entry(Some("current"), Rel0, None, None, None, None, FALSE)])
ReloadFiles == {OnlyV1, AddV2, PromoteV2, TwoCurrent}

Snapshot(vs, ts, sum) == [versions |-> vs, last_loaded |-> ts, checksum |-> sum]

\* ConfigReloadHandler._reload_config -> reload() -> load_from_file up to
\* line 150: read and validate the file; an error is logged and dropped
RlBegin(text) ==
    /\ rl_pc = "idle"
    /\ IsSome(config_path)
    /\ clock < MaxLoads
    /\ clock' = clock + 1
    /\ load_text' = text
    /\ IF load_ok(text)
       THEN /\ rl_new' = [versions |-> BuiltVersions(text),
                          path |-> Val(config_path),
                          checksum |-> Checksum(text)]
            /\ rl_pc' = "set_versions"
            /\ UNCHANGED load_result
       ELSE /\ load_result' = "error"
            /\ UNCHANGED <<rl_new, rl_pc>>
    /\ UNCHANGED <<versions, config_path, last_loaded, config_checksum,
                   installs, rd_pc, rd_obs, pipeVars, precVars, fnVars, rateVars, cbVars>>

WatcherReload == \E text \in ReloadFiles : RlBegin(text)

\* registry.py 153: cls._versions = versions
RlSetVersions ==
    /\ rl_pc = "set_versions"
    /\ versions' = rl_new.versions
    /\ rl_pc' = "set_path"
    /\ UNCHANGED <<config_path, last_loaded, config_checksum, clock,
                   load_result, load_text, rl_new, installs, rd_pc, rd_obs,
                   pipeVars, precVars, fnVars, rateVars, cbVars>>

\* registry.py 154: cls._config_path = config_path
RlSetPath ==
    /\ rl_pc = "set_path"
    /\ config_path' = Some(rl_new.path)
    /\ rl_pc' = "set_last_loaded"
    /\ UNCHANGED <<versions, last_loaded, config_checksum, clock,
                   load_result, load_text, rl_new, installs, rd_pc, rd_obs,
                   pipeVars, precVars, fnVars, rateVars, cbVars>>

\* registry.py 155: cls._last_loaded = datetime.now()
RlSetLastLoaded ==
    /\ rl_pc = "set_last_loaded"
    /\ last_loaded' = Some(clock)
    /\ rl_pc' = "set_checksum"
    /\ UNCHANGED <<versions, config_path, config_checksum, clock,
                   load_result, load_text, rl_new, installs, rd_pc, rd_obs,
                   pipeVars, precVars, fnVars, rateVars, cbVars>>

\* registry.py 156-158: cls._config_checksum = checksum; return
RlSetChecksum ==
    /\ rl_pc = "set_checksum"
    /\ config_checksum' = Some(rl_new.checksum)
    /\ load_result' = "ok"
    /\ rl_pc' = "idle"
    /\ installs' = installs \cup
                     {Snapshot(versions, last_loaded, Some(rl_new.checksum))}
    /\ UNCHANGED <<versions, config_path, last_loaded, clock, load_text,
                   rl_new, rd_pc, rd_obs, pipeVars, precVars, fnVars, rateVars, cbVars>>

\* a reader starts to collect the mapping and its provenance
RdBegin ==
    /\ rd_pc \in {"idle", "done"}
    /\ rd_obs' = NoObservation
    /\ rd_pc' = "versions"
    /\ UNCHANGED <<regVars, rl_pc, rl_new, installs, pipeVars, precVars, fnVars, rateVars, cbVars>>

\* registry.py 268 / 325: self._versions
RdVersions ==
    /\ rd_pc = "versions"
    /\ rd_obs' = [rd_obs EXCEPT !.versions = versions]
    /\ rd_pc' = "last_loaded"
    /\ UNCHANGED <<regVars, rl_pc, rl_new, installs, pipeVars, precVars, fnVars, rateVars, cbVars>>

\* registry.py 370-373: the last_loaded property
RdLastLoaded ==
    /\ rd_pc = "last_loaded"
    /\ rd_obs' = [rd_obs EXCEPT !.last_loaded = last_loaded]
    /\ rd_pc' = "checksum"
    /\ UNCHANGED <<regVars, rl_pc, rl_new, installs, pipeVars, precVars, fnVars, rateVars, cbVars>>

\* registry.py 375-378: the config_checksum property
RdChecksum ==
    /\ rd_pc = "checksum"
    /\ rd_obs' = [rd_obs EXCEPT !.checksum = config_checksum]
    /\ rd_pc' = "done"
    /\ UNCHANGED <<regVars, rl_pc, rl_new, installs, pipeVars, precVars, fnVars, rateVars, cbVars>>

\* the registry loaded at start-up from one of the valid texts, the watcher
\* and the reader idle
InitWatched ==
    /\ \E text \in ReloadFiles : load_ok(text) /\ Deployed(text)
    /\ rl_pc = "idle"
    /\ rl_new = NoSnapshot
    /\ rd_pc = "idle"
    /\ rd_obs = NoObservation
    /\ installs = {Snapshot(versions, last_loaded, config_checksum)}

InitReader == InitWatched /\ PipeIdle /\ PrecIdle /\ FnIdle /\ RateIdle /\ CbIdle
NextReader ==
    \/ WatcherReload
    \/ RlSetVersions
    \/ RlSetPath
    \/ RlSetLastLoaded
    \/ RlSetChecksum
    \/ RdBegin
    \/ RdVersions
    \/ RdLastLoaded
    \/ RdChecksum
SpecReader == InitReader /\ [][NextReader]_vars

\* C3: what a reader has collected (mapping, load timestamp, checksum) is
\* one of the snapshots that were installed, never the mapping of one load
\* with the timestamp or checksum of another.
C3_ReaderSeesOneSnapshot ==
    rd_pc = "done" =>
        \E s \in installs :
            /\ s.versions = rd_obs.versions
            /\ s.last_loaded = rd_obs.last_loaded
            /\ s.checksum = rd_obs.checksum

-----------------------------------------------------------------------------
(* Requests processed while the watcher thread reloads                     *)

ConcRequests ==
    { Scope(<<>>, RootPath, <<>>),
      Scope(<< <<"X-API-Version", V1>> >>, RootPath, <<>>),
      Scope(<< <<"X-API-Version", V2>> >>, RootPath, <<>>),
      Scope(<<>>, V2Path, <<>>) }

HttpRequestConc ==
    /\ \E r \in ConcRequests : StartRequest(r)
    /\ UNCHANGED <<regVars, thrVars, precVars, fnVars, rateVars, cbVars, fltVars>>

InitConc ==
    /\ InitWatched
    /\ PrecIdle /\ FnIdle /\ RateIdle /\ CbIdle
    /\ pc = "idle"
    /\ req = NoRequest
    /\ today = Day.dep
    /\ version_id = <<>>
    /\ metadata = None
    /\ response = <<>>
    /\ app_called = FALSE
    /\ scope_bound = FALSE
    /\ stages = <<>>
    /\ default_version = V1
    /\ start_versions = <<>>
    /\ FltIdle

NextConc ==
    \/ WatcherReload
    \/ RlSetVersions
    \/ RlSetPath
    \/ RlSetLastLoaded
    \/ RlSetChecksum
    \/ HttpRequestConc
    \/ ResolveStage /\ UNCHANGED <<regVars, thrVars, precVars, fnVars, rateVars, cbVars, fltVars>>
    \/ LookupStage /\ UNCHANGED <<regVars, thrVars, precVars, fnVars, rateVars, cbVars, fltVars>>
    \/ NotFoundStage /\ UNCHANGED <<regVars, thrVars, precVars, fnVars, rateVars, cbVars, fltVars>>
    \/ SunsetStage /\ UNCHANGED <<regVars, thrVars, precVars, fnVars, rateVars, cbVars, fltVars>>
    \/ PrereleaseStage /\ UNCHANGED <<regVars, thrVars, precVars, fnVars, rateVars, cbVars, fltVars>>
    \/ CallApp /\ UNCHANGED <<regVars, thrVars, precVars, fnVars, rateVars, cbVars, fltVars>>
SpecConc == InitConc /\ [][NextConc]_vars

\* C4: the lookup by id and the list of active ids of one run are read from
\* one snapshot: a NotFound (404) response never lists the requested id
\* among its available versions.
C4_NotFoundNeverListsRequested ==
    \A i \in 1..Len(response) :
        response[i].status = 404 =>
            \A k \in 1..Len(response[i].available) :
                response[i].available[k] # version_id

-----------------------------------------------------------------------------
(* RateLimiter.check_limit called from several threads for one consumer    *)

NumThreads == 3
RtThreads == 1..NumThreads

\* the consumer all the threads check, known to the limiter and authenticated
RtConsumer == "c1"

RtIdleLocals == [t |-> 0, seen |-> 0]

\* rate_limit.py 124-134: pick the config, fetch the state object, read the time
RtEnter(th) ==
    /\ rt_pc[th] = "idle"
    /\ RtConsumer \in DOMAIN states
    /\ rt_pc' = [rt_pc EXCEPT ![th] = "window"]
    /\ rt_loc' = [rt_loc EXCEPT ![th].t = now]
    /\ UNCHANGED <<states, now, rl_result, admitted>>

\* rate_limit.py 136-141: the window test and reset
RtWindow(th) ==
    /\ rt_pc[th] = "window"
    /\ states' = [states EXCEPT ![RtConsumer] =
                     AfterWindow(states[RtConsumer], ConfigFor(TRUE), rt_loc[th].t)]
    /\ rt_pc' = [rt_pc EXCEPT ![th] = "test"]
    /\ UNCHANGED <<now, rl_result, admitted, rt_loc>>

\* rate_limit.py 144: if state.request_count < config.requests_per_minute;
\* when it is not, lines 158-167 return the rejection
RtTest(th) ==
    /\ rt_pc[th] = "test"
    /\ rt_pc' = [rt_pc EXCEPT ![th] =
                    IF states[RtConsumer].request_count
                         < ConfigFor(TRUE).requests_per_minute
                    THEN "load" ELSE "rejected"]
    /\ UNCHANGED <<states, now, rl_result, admitted, rt_loc>>

\* rate_limit.py 146: state.request_count += 1, the read of the attribute
RtLoad(th) ==
    /\ rt_pc[th] = "load"
    /\ rt_loc' = [rt_loc EXCEPT ![th].seen = states[RtConsumer].request_count]
    /\ rt_pc' = [rt_pc EXCEPT ![th] = "store"]
    /\ UNCHANGED <<states, now, rl_result, admitted>>

\* rate_limit.py 146-156: the write of the attribute, last_request, and the
\* return of the allowed result
RtStore(th) ==
    /\ rt_pc[th] = "store"
    /\ states' = [states EXCEPT ![RtConsumer].request_count = rt_loc[th].seen + 1,
                                ![RtConsumer].last_request = rt_loc[th].t]
    /\ admitted' = [admitted EXCEPT ![RtConsumer].n = @ + 1]
    /\ rt_pc' = [rt_pc EXCEPT ![th] = "allowed"]
    /\ UNCHANGED <<now, rl_result, rt_loc>>

\* a limiter that has seen the consumer at time 0, and threads about to check
InitRateConc ==
    /\ states = [c \in {RtConsumer} |-> NewState(0)]
    /\ now = 0
    /\ rl_result = None
    /\ admitted = [c \in {RtConsumer} |-> [n |-> 0, auths |-> {TRUE}]]
    /\ rt_pc = [th \in RtThreads |-> "idle"]
    /\ rt_loc = [th \in RtThreads |-> RtIdleLocals]
    /\ RegIdle /\ ThrIdle /\ PipeIdle /\ PrecIdle /\ FnIdle /\ CbIdle

NextRateConc ==
    \/ \E th \in RtThreads : RtEnter(th) /\ UNCHANGED <<regVars, thrVars, pipeVars, precVars, fnVars, cbVars>>
    \/ \E th \in RtThreads : RtWindow(th) /\ UNCHANGED <<regVars, thrVars, pipeVars, precVars, fnVars, cbVars>>
    \/ \E th \in RtThreads : RtTest(th) /\ UNCHANGED <<regVars, thrVars, pipeVars, precVars, fnVars, cbVars>>
    \/ \E th \in RtThreads : RtLoad(th) /\ UNCHANGED <<regVars, thrVars, pipeVars, precVars, fnVars, cbVars>>
    \/ \E th \in RtThreads : RtStore(th) /\ UNCHANGED <<regVars, thrVars, pipeVars, precVars, fnVars, cbVars>>
SpecRateConc == InitRateConc /\ [][NextRateConc]_vars

\* C11: under every interleaving of concurrent checks for one consumer the
\* number of checks allowed in the window never exceeds the limit, and once
\* no check is in progress request_count equals the number allowed.
C11_NoLostUpdate ==
    /\ admitted[RtConsumer].n <= LimitAuth
    /\ (\A th \in RtThreads : rt_pc[th] \in {"idle", "allowed", "rejected"}) =>
          states[RtConsumer].request_count = admitted[RtConsumer].n

-----------------------------------------------------------------------------
(* CircuitBreaker (reliability/circuit_breaker.py), one call at a time     *)

FailureThreshold == 2
SuccessThreshold == 2
TimeoutTicks     == 2
MaxCbTime        == 5

\* the attributes of a breaker as one value
BreakerOf(st, fc, sc, lft) ==
    [state |-> st, failure_count |-> fc, success_count |-> sc,
     last_failure_time |-> lft]

Breaker == BreakerOf(cb_state, failure_count, success_count, last_failure_time)

\* what a guarded operation does: return a value or raise an Exception
Outcomes ==
    { [kind |-> "return", value |-> v] : v \in {"r1", "r2"} }
      \cup { [kind |-> "raise", value |-> e] : e \in {"e1", "e2"} }

\* CircuitBreakerOpen(self.name)
CircuitBreakerOpen == [kind |-> "raise", value |-> "CircuitBreakerOpen"]

\* the timeout test with a strict comparison
should_attempt_reset_strict(b, t) ==
    IF IsNone(b.last_failure_time) THEN TRUE
    ELSE t - Val(b.last_failure_time) > TimeoutTicks
\* circuit_breaker.py _should_attempt_reset
should_attempt_reset(b, t) ==
    IF IsNone(b.last_failure_time) THEN TRUE
    ELSE t - Val(b.last_failure_time) >= TimeoutTicks

\* the failure threshold reached only when exceeded
failure_opens_late(count) == count > FailureThreshold
\* circuit_breaker.py 162
failure_opens(count) == count >= FailureThreshold

\* the success threshold reached only when exceeded
success_closes_late(count) == count > SuccessThreshold
\* circuit_breaker.py 141
success_closes(count) == count >= SuccessThreshold

\* an entry test that counts a rejection as a failure of its own
admit_stamps_rejection(b, t) ==
    IF b.state = "OPEN"
    THEN IF should_attempt_reset(b, t)
         THEN [run |-> TRUE,
               breaker |-> [b EXCEPT !.state = "HALF_OPEN", !.success_count = 0]]
         ELSE [run |-> FALSE,
               breaker |-> [b EXCEPT !.last_failure_time = Some(t)]]
    ELSE [run |-> TRUE, breaker |-> b]
\* circuit_breaker.py 97-103 and 183-187: the breaker after the entry test,
\* and whether the operation is run
admit(b, t) ==
    IF b.state = "OPEN"
    THEN IF should_attempt_reset(b, t)
         THEN [run |-> TRUE,
               breaker |-> [b EXCEPT !.state = "HALF_OPEN", !.success_count = 0]]
         ELSE [run |-> FALSE, breaker |-> b]
    ELSE [run |-> TRUE, breaker |-> b]

\* _on_success that leaves failure_count alone in CLOSED
on_success_keep(b) ==
    IF b.state = "HALF_OPEN"
    THEN IF success_closes(b.success_count + 1)
         THEN [b EXCEPT !.state = "CLOSED", !.failure_count = 0,
                        !.success_count = 0]
         ELSE [b EXCEPT !.success_count = b.success_count + 1]
    ELSE b
\* circuit_breaker.py _on_success
on_success(b) ==
    IF b.state = "HALF_OPEN"
    THEN IF success_closes(b.success_count + 1)
         THEN [b EXCEPT !.state = "CLOSED", !.failure_count = 0,
                        !.success_count = 0]
         ELSE [b EXCEPT !.success_count = b.success_count + 1]
    ELSE IF b.state = "CLOSED"
    THEN [b EXCEPT !.failure_count = 0]
    ELSE b

\* circuit_breaker.py _on_failure
on_failure(b, t) ==
    LET b1 == [b EXCEPT !.last_failure_time = Some(t),
                        !.failure_count = b.failure_count + 1]
    IN IF b1.state = "HALF_OPEN"
       THEN [b1 EXCEPT !.state = "OPEN", !.success_count = 0]
       ELSE IF b1.state = "CLOSED" /\ failure_opens(b1.failure_count)
       THEN [b1 EXCEPT !.state = "OPEN"]
       ELSE b1

\* an outcome handed on with the error replaced by the breaker's own
caller_sees_wrapped(out) ==
    IF out.kind = "raise" THEN CircuitBreakerOpen ELSE out
\* circuit_breaker.py 106-112 (return result / raise) and 191-196 (__exit__
\* returns None, so the exception of the with-body propagates)
caller_sees(out) == out

\* history of the guarded calls (cb_last.recorded counts the _on_success and
\* _on_failure calls made for the last guarded call): the current run of consecutive failures,
\* the longest such run since the start or the last reset, the successes
\* since HALF_OPEN was entered, and the failures since the start or the last
\* reset (counted up to failure_threshold)
NoHistory == [run |-> 0, maxrun |-> 0, hrun |-> 0, fails |-> 0]

\* the breaker attributes set from one value
SetBreaker(b) ==
    /\ cb_state' = b.state
    /\ failure_count' = b.failure_count
    /\ success_count' = b.success_count
    /\ last_failure_time' = b.last_failure_time

\* entry of call(func) (97-103) or of "with protect()" (181-189)
CbEnter(via) ==
    /\ cb_pc = "idle"
    /\ LET a == admit(Breaker, cb_now)
       IN /\ SetBreaker(a.breaker)
          /\ cb_pc' = IF a.run THEN "running" ELSE "idle"
          /\ cb_last' = Some([op |-> via, time |-> cb_now, pre |-> Breaker,
                              invoked |-> a.run,
                              at_exit |-> None, exit_time |-> None,
                              outcome |-> None, recorded |-> 0,
                              observed |-> IF a.run THEN None
                                           ELSE Some(CircuitBreakerOpen)])
          /\ cb_hist' = IF a.run /\ Breaker.state = "OPEN"
                        THEN [cb_hist EXCEPT !.hrun = 0] ELSE cb_hist
    /\ UNCHANGED <<cb_now, ct_pc, ct_loc, ct_done>>

\* the operation ends and its outcome is recorded: call() 106-112, or
\* __exit__ 191-196
CbExit(out) ==
    /\ cb_pc = "running"
    /\ LET b == IF out.kind = "return" THEN on_success(Breaker)
                ELSE on_failure(Breaker, cb_now)
       IN /\ SetBreaker(b)
          /\ cb_last' = Some([Val(cb_last) EXCEPT
                                 !.at_exit = Some(Breaker),
                                 !.exit_time = Some(cb_now),
                                 !.outcome = Some(out),
                                 !.recorded = @ + 1,
                                 !.observed = Some(caller_sees(out))])
          /\ cb_hist' =
                IF out.kind = "return"
                THEN [cb_hist EXCEPT !.run = 0,
                                     !.hrun = IF Breaker.state = "HALF_OPEN"
                                              THEN cb_hist.hrun + 1 ELSE 0]
                ELSE [cb_hist EXCEPT !.run = cb_hist.run + 1,
                                     !.maxrun = Max(cb_hist.maxrun, cb_hist.run + 1),
                                     !.fails = IF cb_hist.fails < FailureThreshold
                                               THEN cb_hist.fails + 1
                                               ELSE cb_hist.fails,
                                     !.hrun = 0]
    /\ cb_pc' = "idle"
    /\ UNCHANGED <<cb_now, ct_pc, ct_loc, ct_done>>

\* circuit_breaker.py reset
CbReset ==
    /\ cb_pc = "idle"
    /\ SetBreaker(BreakerOf("CLOSED", 0, 0, None))
    /\ cb_last' = Some([op |-> "reset", time |-> cb_now, pre |-> Breaker,
                        invoked |-> FALSE, at_exit |-> None,
                        exit_time |-> None, outcome |-> None,
                        recorded |-> 0, observed |-> None])
    /\ cb_hist' = NoHistory
    /\ UNCHANGED <<cb_now, cb_pc, ct_pc, ct_loc, ct_done>>

\* time.time() advances
CbTick ==
    /\ cb_now < MaxCbTime
    /\ cb_now' = cb_now + 1
    /\ UNCHANGED <<cb_state, failure_count, success_count, last_failure_time,
                   cb_pc, cb_last, cb_hist, ct_pc, ct_loc, ct_done>>

InitBreaker ==
    /\ cb_state = "CLOSED"
    /\ failure_count = 0
    /\ success_count = 0
    /\ last_failure_time = None
    /\ cb_now = 0
    /\ cb_pc = "idle"
    /\ cb_last = None
    /\ cb_hist = NoHistory
    /\ ct_pc = <<>>
    /\ ct_loc = <<>>
    /\ ct_done = <<>>
    /\ RegIdle /\ ThrIdle /\ PipeIdle /\ PrecIdle /\ FnIdle /\ RateIdle

NextBreaker ==
    \/ \E via \in {"call", "protect"} :
          CbEnter(via) /\ UNCHANGED <<regVars, thrVars, pipeVars, precVars, fnVars, rateVars>>
    \/ \E out \in Outcomes :
          CbExit(out) /\ UNCHANGED <<regVars, thrVars, pipeVars, precVars, fnVars, rateVars>>
    \/ CbReset /\ UNCHANGED <<regVars, thrVars, pipeVars, precVars, fnVars, rateVars>>
    \/ CbTick /\ UNCHANGED <<regVars, thrVars, pipeVars, precVars, fnVars, rateVars>>
SpecBreaker == InitBreaker /\ [][NextBreaker]_vars

\* C12: once failure_threshold guarded calls in a row have failed the
\* breaker is OPEN; and a call attempted while it is OPEN and less than
\* timeout_seconds after the last failure is answered with
\* CircuitBreakerOpen, the operation is not run and the breaker is unchanged.
C12_OpensAndShortCircuits ==
    /\ (cb_pc = "idle" /\ cb_hist.run >= FailureThreshold) => cb_state = "OPEN"
    /\ cb_last # None =>
          LET c == Val(cb_last)
          IN (/\ c.op # "reset"
              /\ c.pre.state = "OPEN"
              /\ c.pre.last_failure_time # None
              /\ c.time - Val(c.pre.last_failure_time) < TimeoutTicks) =>
                 /\ ~c.invoked
                 /\ c.outcome = None
                 /\ c.observed = Some(CircuitBreakerOpen)
                 /\ cb_pc = "idle"
                 /\ Breaker = c.pre

\* exactly failure_threshold failures from CLOSED, then a call one tick
\* before the timeout ends is rejected
C12_Witness ==
    /\ cb_last # None
    /\ Val(cb_last).op = "call"
    /\ ~Val(cb_last).invoked
    /\ Val(cb_last).observed = Some(CircuitBreakerOpen)
    /\ cb_state = "OPEN"
    /\ cb_hist.run = FailureThreshold
    /\ cb_hist.maxrun = FailureThreshold
    /\ failure_count = FailureThreshold
    /\ Val(cb_last).time - Val(last_failure_time) = TimeoutTicks - 1

\* a step that is the entry of a guarded call
CbAttemptStep ==
    /\ cb_pc = "idle"
    /\ cb_last' # None
    /\ Val(cb_last').op # "reset"
    /\ Val(cb_last').at_exit = None
    /\ (cb_last' # cb_last \/ cb_pc' = "running")

\* C13: while the breaker is OPEN, a call attempted when
\* now - last_failure_time >= timeout_seconds moves it to HALF_OPEN with
\* success_count 0 and runs the operation; and the breaker leaves OPEN only
\* by such an attempt (never earlier, never without one) or by reset().
C13_HalfOpenOnAttemptAfterTimeout ==
    [][ cb_state = "OPEN" =>
          /\ (/\ CbAttemptStep
              /\ last_failure_time # None
              /\ cb_now - Val(last_failure_time) >= TimeoutTicks) =>
                 /\ cb_state' = "HALF_OPEN"
                 /\ success_count' = 0
                 /\ cb_pc' = "running"
                 /\ Val(cb_last').invoked
          /\ cb_state' # "OPEN" =>
                \/ Val(cb_last').op = "reset"
                \/ /\ CbAttemptStep
                   /\ last_failure_time # None
                   /\ cb_now - Val(last_failure_time) >= TimeoutTicks
                   /\ cb_state' = "HALF_OPEN" ]_vars

\* a call entered exactly timeout_seconds after the last failure: the
\* operation is running and the breaker is HALF_OPEN
C13_Witness ==
    /\ cb_pc = "running"
    /\ cb_state = "HALF_OPEN"
    /\ success_count = 0
    /\ cb_last # None
    /\ Val(cb_last).pre.state = "OPEN"
    /\ Val(cb_last).invoked
    /\ Val(cb_last).time - Val(Val(cb_last).pre.last_failure_time) = TimeoutTicks

\* C14: for a call that ended while the breaker was HALF_OPEN: a failure
\* leaves it OPEN with success_count 0 and last_failure_time the time of
\* that failure; a success that is the success_threshold-th in a row since
\* HALF_OPEN was entered leaves it CLOSED with failure_count and
\* success_count 0, an earlier one leaves it HALF_OPEN with the successes
\* counted.
C14_HalfOpenClosesOrReopens ==
    (cb_last # None /\ Val(cb_last).at_exit # None
       /\ Val(Val(cb_last).at_exit).state = "HALF_OPEN") =>
        LET c == Val(cb_last)
        IN /\ Val(c.outcome).kind = "raise" =>
                /\ cb_state = "OPEN"
                /\ success_count = 0
                /\ last_failure_time = c.exit_time
                /\ cb_hist.hrun = 0
           /\ Val(c.outcome).kind = "return" =>
                IF cb_hist.hrun >= SuccessThreshold
                THEN /\ cb_hist.hrun = SuccessThreshold
                     /\ cb_state = "CLOSED"
                     /\ failure_count = 0
                     /\ success_count = 0
                ELSE /\ cb_state = "HALF_OPEN"
                     /\ success_count = cb_hist.hrun

\* the success that closes a breaker which had counted failures
C14_Witness ==
    /\ cb_last # None
    /\ Val(cb_last).at_exit # None
    /\ Val(Val(cb_last).at_exit).state = "HALF_OPEN"
    /\ Val(Val(cb_last).at_exit).failure_count >= FailureThreshold
    /\ Val(Val(cb_last).at_exit).success_count = SuccessThreshold - 1
    /\ Val(Val(cb_last).outcome).kind = "return"
    /\ cb_state = "CLOSED"
    /\ failure_count = 0
    /\ success_count = 0

\* C15: a call that returns while the breaker is CLOSED leaves
\* failure_count 0, in CLOSED failure_count is the length of the current
\* run of consecutive failures, and as long as no run of consecutive
\* failures has reached failure_threshold the breaker is CLOSED.
C15_OnlyConsecutiveFailuresOpen ==
    /\ cb_hist.maxrun < FailureThreshold => cb_state = "CLOSED"
    /\ (cb_state = "CLOSED" /\ cb_pc = "idle") => failure_count = cb_hist.run
    /\ (cb_last # None /\ Val(cb_last).at_exit # None
          /\ Val(Val(cb_last).at_exit).state = "CLOSED"
          /\ Val(Val(cb_last).outcome).kind = "return") => failure_count = 0

\* failure_threshold failures in all, separated by a success: still CLOSED
C15_Witness ==
    /\ cb_hist.fails >= FailureThreshold
    /\ cb_hist.maxrun = FailureThreshold - 1
    /\ cb_hist.run = FailureThreshold - 1
    /\ cb_state = "CLOSED"
    /\ cb_pc = "idle"
    /\ failure_count = FailureThreshold - 1

\* C16: a guarded call whose operation was run hands the caller the
\* operation's own outcome (the value returned or the very error raised,
\* never CircuitBreakerOpen), whatever it does to the breaker; the caller
\* gets CircuitBreakerOpen only from a call whose operation was not run.
C16_OutcomeUnchanged ==
    (cb_last # None /\ Val(cb_last).op # "reset") =>
        LET c == Val(cb_last)
        IN /\ (c.invoked /\ c.outcome # None) =>
                 /\ c.observed = c.outcome
                 /\ c.observed # Some(CircuitBreakerOpen)
           /\ (c.invoked /\ c.outcome = None) =>
                 (c.observed = None /\ cb_pc = "running")
           /\ c.observed = Some(CircuitBreakerOpen) =>
                 (~c.invoked /\ c.outcome = None)
           /\ ~c.invoked => c.observed = Some(CircuitBreakerOpen)

\* the failure that reopens a HALF_OPEN breaker still reaches the caller as
\* the operation's own error
C16_Witness ==
    /\ cb_last # None
    /\ Val(cb_last).op = "protect"
    /\ Val(cb_last).invoked
    /\ Val(cb_last).at_exit # None
    /\ Val(Val(cb_last).at_exit).state = "HALF_OPEN"
    /\ cb_state = "OPEN"
    /\ Val(cb_last).outcome = Some([kind |-> "raise", value |-> "e2"])
    /\ Val(cb_last).observed = Some([kind |-> "raise", value |-> "e2"])

-----------------------------------------------------------------------------
(* Guarded calls made from several threads on one breaker                  *)

CtThreads == 1..NumThreads

CtFinished == {"done", "rejected"}

\* entry of call(func) (97-103); the operation then runs and returns or
\* raises as given by kind
CtEnter(th, kind) ==
    /\ ct_pc[th] = "idle"
    /\ LET a == admit(Breaker, cb_now)
       IN /\ SetBreaker(a.breaker)
          /\ ct_pc' = [ct_pc EXCEPT ![th] =
                          IF ~a.run THEN "rejected"
                          ELSE IF kind = "return" THEN "s_test" ELSE "f_stamp"]
    /\ UNCHANGED <<cb_now, cb_pc, cb_last, cb_hist, ct_loc, ct_done>>

\* circuit_breaker.py 153: self.last_failure_time = time.time()
CtFailStamp(th) ==
    /\ ct_pc[th] = "f_stamp"
    /\ last_failure_time' = Some(cb_now)
    /\ ct_pc' = [ct_pc EXCEPT ![th] = "f_load"]
    /\ UNCHANGED <<cb_state, failure_count, success_count, cb_now, cb_pc,
                   cb_last, cb_hist, ct_loc, ct_done>>

\* circuit_breaker.py 154: self.failure_count += 1, the read
CtFailLoad(th) ==
    /\ ct_pc[th] = "f_load"
    /\ ct_loc' = [ct_loc EXCEPT ![th] = failure_count]
    /\ ct_pc' = [ct_pc EXCEPT ![th] = "f_store"]
    /\ UNCHANGED <<cb_state, failure_count, success_count, last_failure_time,
                   cb_now, cb_pc, cb_last, cb_hist, ct_done>>

\* circuit_breaker.py 154: the write
CtFailStore(th) ==
    /\ ct_pc[th] = "f_store"
    /\ failure_count' = ct_loc[th] + 1
    /\ ct_pc' = [ct_pc EXCEPT ![th] = "f_test"]
    /\ UNCHANGED <<cb_state, success_count, last_failure_time, cb_now, cb_pc,
                   cb_last, cb_hist, ct_loc, ct_done>>

\* circuit_breaker.py 156-164
CtFailTest(th) ==
    /\ ct_pc[th] = "f_test"
    /\ IF cb_state = "HALF_OPEN"
       THEN cb_state' = "OPEN" /\ success_count' = 0
       ELSE IF cb_state = "CLOSED" /\ failure_opens(failure_count)
       THEN cb_state' = "OPEN" /\ UNCHANGED success_count
       ELSE UNCHANGED <<cb_state, success_count>>
    /\ ct_pc' = [ct_pc EXCEPT ![th] = "done"]
    /\ ct_done' = [ct_done EXCEPT !.fails = @ + 1]
    /\ UNCHANGED <<failure_count, last_failure_time, cb_now, cb_pc, cb_last,
                   cb_hist, ct_loc>>

\* circuit_breaker.py 138 and 147-149
CtSuccTest(th) ==
    /\ ct_pc[th] = "s_test"
    /\ IF cb_state = "HALF_OPEN"
       THEN /\ ct_pc' = [ct_pc EXCEPT ![th] = "s_load"]
            /\ UNCHANGED <<failure_count, ct_done>>
       ELSE /\ failure_count' = IF cb_state = "CLOSED" THEN 0 ELSE failure_count
            /\ ct_pc' = [ct_pc EXCEPT ![th] = "done"]
            /\ ct_done' = [ct_done EXCEPT !.succs = @ + 1]
    /\ UNCHANGED <<cb_state, success_count, last_failure_time, cb_now, cb_pc,
                   cb_last, cb_hist, ct_loc>>

\* circuit_breaker.py 139: self.success_count += 1, the read
CtSuccLoad(th) ==
    /\ ct_pc[th] = "s_load"
    /\ ct_loc' = [ct_loc EXCEPT ![th] = success_count]
    /\ ct_pc' = [ct_pc EXCEPT ![th] = "s_store"]
    /\ UNCHANGED <<cb_state, failure_count, success_count, last_failure_time,
                   cb_now, cb_pc, cb_last, cb_hist, ct_done>>

\* circuit_breaker.py 139: the write
CtSuccStore(th) ==
    /\ ct_pc[th] = "s_store"
    /\ success_count' = ct_loc[th] + 1
    /\ ct_pc' = [ct_pc EXCEPT ![th] = "s_close"]
    /\ UNCHANGED <<cb_state, failure_count, last_failure_time, cb_now, cb_pc,
                   cb_last, cb_hist, ct_loc, ct_done>>

\* circuit_breaker.py 141-145
CtSuccClose(th) ==
    /\ ct_pc[th] = "s_close"
    /\ IF success_closes(success_count)
       THEN cb_state' = "CLOSED" /\ failure_count' = 0 /\ success_count' = 0
       ELSE UNCHANGED <<cb_state, failure_count, success_count>>
    /\ ct_pc' = [ct_pc EXCEPT ![th] = "done"]
    /\ ct_done' = [ct_done EXCEPT !.succs = @ + 1]
    /\ UNCHANGED <<last_failure_time, cb_now, cb_pc, cb_last, cb_hist, ct_loc>>

\* a new breaker (CLOSED), or one that opened at time 0 and has just been
\* moved to HALF_OPEN by a call made after the timeout; threads about to call
InitBreakerConc ==
    /\ \/ /\ cb_state = "CLOSED"
          /\ failure_count = 0
          /\ last_failure_time = None
          /\ cb_now = 0
       \/ /\ cb_state = "HALF_OPEN"
          /\ failure_count = FailureThreshold
          /\ last_failure_time = Some(0)
          /\ cb_now = TimeoutTicks
    /\ success_count = 0
    /\ cb_pc = "idle"
    /\ cb_last = None
    /\ cb_hist = NoHistory
    /\ ct_pc = [th \in CtThreads |-> "idle"]
    /\ ct_loc = [th \in CtThreads |-> 0]
    /\ ct_done = [start |-> cb_state, fails |-> 0, succs |-> 0]
    /\ RegIdle /\ ThrIdle /\ PipeIdle /\ PrecIdle /\ FnIdle /\ RateIdle

NextBreakerConc ==
    \/ \E th \in CtThreads, kind \in {"return", "raise"} :
          CtEnter(th, kind) /\ UNCHANGED <<regVars, thrVars, pipeVars, precVars, fnVars, rateVars>>
    \/ \E th \in CtThreads : CtFailStamp(th)
          /\ UNCHANGED <<regVars, thrVars, pipeVars, precVars, fnVars, rateVars>>
    \/ \E th \in CtThreads : CtFailLoad(th)
          /\ UNCHANGED <<regVars, thrVars, pipeVars, precVars, fnVars, rateVars>>
    \/ \E th \in CtThreads : CtFailStore(th)
          /\ UNCHANGED <<regVars, thrVars, pipeVars, precVars, fnVars, rateVars>>
    \/ \E th \in CtThreads : CtFailTest(th)
          /\ UNCHANGED <<regVars, thrVars, pipeVars, precVars, fnVars, rateVars>>
    \/ \E th \in CtThreads : CtSuccTest(th)
          /\ UNCHANGED <<regVars, thrVars, pipeVars, precVars, fnVars, rateVars>>
    \/ \E th \in CtThreads : CtSuccLoad(th)
          /\ UNCHANGED <<regVars, thrVars, pipeVars, precVars, fnVars, rateVars>>
    \/ \E th \in CtThreads : CtSuccStore(th)
          /\ UNCHANGED <<regVars, thrVars, pipeVars, precVars, fnVars, rateVars>>
    \/ \E th \in CtThreads : CtSuccClose(th)
          /\ UNCHANGED <<regVars, thrVars, pipeVars, precVars, fnVars, rateVars>>
SpecBreakerConc == InitBreakerConc /\ [][NextBreakerConc]_vars

\* C17: once the concurrent calls have ended, failures recorded from CLOSED
\* with no success among the calls are all counted in failure_count and
\* failure_threshold of them leave the breaker OPEN; success_threshold
\* successes recorded from HALF_OPEN with no failure among the calls leave
\* it CLOSED.
C17_NoLostCount ==
    (\A th \in CtThreads : ct_pc[th] \in CtFinished) =>
        /\ (ct_done.start = "CLOSED" /\ ct_done.succs = 0) =>
              /\ failure_count = ct_done.fails
              /\ ct_done.fails >= FailureThreshold => cb_state = "OPEN"
        /\ (ct_done.start = "HALF_OPEN" /\ ct_done.fails = 0
              /\ ct_done.succs >= SuccessThreshold) => cb_state = "CLOSED"

-----------------------------------------------------------------------------
(* Response annotation after a successful pipeline run                     *)

\* C18: the response start passed through after a successful run carries
\* the version header with the resolved id; for a deprecated version it
\* carries the deprecation annotation, the sunset annotation when a
\* sunset_date is set and the migration link when a migration URL is set;
\* for a prerelease version the stability annotation; for any other
\* version no deprecation, sunset or stability annotation.
C18_ResponseAnnotations ==
    (pc = "done" /\ app_called /\ IsSome(metadata)) =>
        LET m == Val(metadata)
            h == response[1].headers
        IN /\ h.x_api_version = Some(version_id)
           /\ m.status = "deprecated" =>
                 /\ h.deprecation # None
                 /\ m.sunset_date # None => h.sunset # None
                 /\ m.migration_guide_url # None => h.link # None
           /\ m.status = "prerelease" => h.stability # None
           /\ m.status \notin {"deprecated", "prerelease"} =>
                 /\ h.deprecation = None
                 /\ h.sunset = None
                 /\ h.stability = None

-----------------------------------------------------------------------------
(* Exceptions raised inside the pipeline (middleware 119-196)              *)

\* texts carried by exceptions that do not belong to the taxonomy
ExceptionTexts == {"db password", "stack frame"}
Exceptions == [kind : {"uncategorized"}, text : ExceptionTexts]

\* what the downstream application does when it is awaited at line 187
AppBehaviours ==
    {AppReturns} \cup
    [kind : {"raises", "raises_after_start"}, error : {<<e>> : e \in Exceptions}]

GenericMessage == "An unexpected error occurred while processing version"

\* the handler answering with the text of the exception, as the generic
\* branch of _send_error_response does (middleware 316-324)
on_unexpected_error_leaks(e) ==
    [code |-> "INTERNAL_SERVER_ERROR", message |-> e.text, details |-> None]
\* the body sent by "except Exception as e" (middleware 189-196) through
\* _send_error (middleware 263-271)
on_unexpected_error(e) ==
    [code |-> "INTERNAL_SERVER_ERROR", message |-> GenericMessage,
     details |-> None]

\* __call__ entry with the application that will serve the request
\* requests served by the application
AppRequests ==
    { Scope(<<>>, RootPath, <<>>) } \cup
    { Scope(<< <<"X-API-Version", v>> >>, RootPath, <<>>) :
        v \in {V1, V2, V3B, BadV} }

HttpRequestApp ==
    /\ \E r \in AppRequests : StartRequest(r)
    /\ app_behaviour' \in AppBehaviours
    /\ internal_error_body' = None
    /\ UNCHANGED <<regVars, thrVars, precVars, fnVars, rateVars, cbVars>>

\* middleware 179-196: bind the scope, await the application, and answer
\* whatever it raises
RunApp ==
    /\ pc = "call"
    /\ scope_bound' = TRUE
    /\ app_called' = TRUE
    /\ LET started == Msg(200, "OK", send_wrapper_headers(Val(metadata)), <<>>)
           failed  == ErrorMsg(500, "INTERNAL_SERVER_ERROR")
       IN IF app_behaviour.kind = "returns"
          THEN /\ response' = Append(response, started)
               /\ UNCHANGED internal_error_body
          ELSE /\ response' = IF app_behaviour.kind = "raises"
                              THEN Append(response, failed)
                              ELSE response \o <<started, failed>>
               /\ internal_error_body' =
                      Some(on_unexpected_error(Val(app_behaviour.error)))
    /\ pc' = "done"
    /\ UNCHANGED <<req, today, version_id, metadata, stages, default_version,
                   start_versions, app_behaviour>>

InitApp == InitPipeline

NextApp ==
    \/ HttpRequestApp
    \/ ResolveStage /\ UNCHANGED <<regVars, thrVars, precVars, fnVars, rateVars, cbVars, fltVars>>
    \/ LookupStage /\ UNCHANGED <<regVars, thrVars, precVars, fnVars, rateVars, cbVars, fltVars>>
    \/ NotFoundStage /\ UNCHANGED <<regVars, thrVars, precVars, fnVars, rateVars, cbVars, fltVars>>
    \/ SunsetStage /\ UNCHANGED <<regVars, thrVars, precVars, fnVars, rateVars, cbVars, fltVars>>
    \/ PrereleaseStage /\ UNCHANGED <<regVars, thrVars, precVars, fnVars, rateVars, cbVars, fltVars>>
    \/ RunApp /\ UNCHANGED <<regVars, thrVars, precVars, fnVars, rateVars, cbVars>>

SpecApp == InitApp /\ [][NextApp]_vars

\* C19: an exception outside the taxonomy raised inside the pipeline is
\* answered with status 500, the generic code and the constant message, and
\* the body is the one every other exception content would have produced.
C19_GenericInternalError ==
    (pc = "done" /\ app_called /\ app_behaviour.kind # "returns") =>
        /\ response[Len(response)] = ErrorMsg(500, "INTERNAL_SERVER_ERROR")
        /\ IsSome(internal_error_body)
        /\ Val(internal_error_body).message = GenericMessage
        /\ \A e \in Exceptions :
              internal_error_body = Some(on_unexpected_error(e))

C19_Witness ==
    /\ pc = "done" /\ app_called
    /\ app_behaviour = [kind |-> "raises",
                        error |-> <<[kind |-> "uncategorized",
                                     text |-> "db password"]>>]
    /\ IsSome(internal_error_body)

-----------------------------------------------------------------------------
(* Calendar dates (datetime.date) and their ISO 8601 text                  *)

CalDate(y, m, d) == [y |-> y, m |-> m, d |-> d]

IsLeap(y) == y % 4 = 0 /\ (y % 100 # 0 \/ y % 400 = 0)

DaysInMonth(y, m) ==
    IF m = 2 THEN (IF IsLeap(y) THEN 29 ELSE 28)
    ELSE IF m \in {4, 6, 9, 11} THEN 30 ELSE 31

RECURSIVE DaysBeforeMonth(_, _)
DaysBeforeMonth(y, m) ==
    IF m = 1 THEN 0 ELSE DaysBeforeMonth(y, m - 1) + DaysInMonth(y, m - 1)

DaysBeforeYear(y) ==
    (y - 1) * 365 + (y - 1) \div 4 - (y - 1) \div 100 + (y - 1) \div 400

\* date.toordinal(): dates compare and subtract as their ordinals do
ToOrdinal(c) == DaysBeforeYear(c.y) + DaysBeforeMonth(c.y, c.m) + c.d

DigitSeq == <<"0", "1", "2", "3", "4", "5", "6", "7", "8", "9">>
DigitChar(n) == DigitSeq[n + 1]
DigitVal(ch) == (CHOOSE i \in 1..10 : DigitSeq[i] = ch) - 1

\* "%04d" and "%02d"
Pad4(n) == <<DigitChar(n \div 1000), DigitChar((n \div 100) % 10),
             DigitChar((n \div 10) % 10), DigitChar(n % 10)>>
Pad2(n) == <<DigitChar((n \div 10) % 10), DigitChar(n % 10)>>
PadNone(n) == IF n < 10 THEN <<DigitChar(n)>> ELSE Pad2(n)

\* the text without zero padding of month and day
isoformat_unpadded(c) ==
    Pad4(c.y) \o <<"-">> \o PadNone(c.m) \o <<"-">> \o PadNone(c.d)
\* date.isoformat(): YYYY-MM-DD
isoformat(c) == Pad4(c.y) \o <<"-">> \o Pad2(c.m) \o <<"-">> \o Pad2(c.d)

Number(s, lo, hi) ==
    LET RECURSIVE Acc(_, _)
        Acc(i, n) == IF i > hi THEN n ELSE Acc(i + 1, n * 10 + DigitVal(s[i]))
    IN Acc(lo, 0)

\* date.fromisoformat(text) on texts of the extended form: TRUE iff it
\* returns a date
fromisoformat_ok(s) ==
    /\ Len(s) = 10
    /\ s[5] = "-" /\ s[8] = "-"
    /\ \A i \in {1, 2, 3, 4, 6, 7, 9, 10} : s[i] \in Digits
    /\ Number(s, 1, 4) >= 1
    /\ Number(s, 6, 7) \in 1..12
    /\ Number(s, 9, 10) \in 1..DaysInMonth(Number(s, 1, 4), Number(s, 6, 7))
fromisoformat(s) == CalDate(Number(s, 1, 4), Number(s, 6, 7), Number(s, 9, 10))

-----------------------------------------------------------------------------
(* VersionMetadata: construction, to_dict, and parsing the dictionary back *)

OptOrdinal(o) == IF IsSome(o) THEN Some(ToOrdinal(Val(o))) ELSE None

\* the fields __post_init__ compares, with dates as they compare
Compared(a) ==
    [a EXCEPT !.release_date = ToOrdinal(a.release_date),
              !.deprecation_date = OptOrdinal(a.deprecation_date),
              !.sunset_date = OptOrdinal(a.sunset_date)]

\* VersionMetadata(...): the object, or None when __post_init__ raises
Construct(a) == IF PostInitOK(Compared(a)) THEN Some(a) ELSE None

OptText(o) == IF IsSome(o) THEN Some(isoformat(Val(o))) ELSE None

\* VersionMetadata.to_dict (version.py 199-225)
to_dict(m) ==
    [version_id            |-> m.version_id,
     status                |-> Some(m.status),
     release_date          |-> Some(isoformat(m.release_date)),
     deprecation_date      |-> OptText(m.deprecation_date),
     sunset_date           |-> OptText(m.sunset_date),
     breaking_changes_from |-> m.breaking_changes_from,
     migration_guide_url   |-> m.migration_guide_url,
     opt_in_required       |-> m.opt_in_required]

\* _parse_version_metadata (registry.py 160-224) on a dictionary whose dates
\* are texts: the object, or None when it raises
parse_version_metadata(id, data) ==
    IF \/ IsNone(data.status) \/ IsNone(data.release_date)
       \/ Val(data.status) \notin Statuses
       \/ ~fromisoformat_ok(Val(data.release_date))
       \/ Truthy(data.deprecation_date)
            /\ ~fromisoformat_ok(Val(data.deprecation_date))
       \/ Truthy(data.sunset_date) /\ ~fromisoformat_ok(Val(data.sunset_date))
    THEN None
    ELSE Construct(
           [version_id            |-> id,
            status                |-> Val(data.status),
            release_date          |-> fromisoformat(Val(data.release_date)),
            deprecation_date      |->
                IF Truthy(data.deprecation_date)
                THEN Some(fromisoformat(Val(data.deprecation_date))) ELSE None,
            sunset_date           |->
                IF Truthy(data.sunset_date)
                THEN Some(fromisoformat(Val(data.sunset_date))) ELSE None,
            breaking_changes_from |-> data.breaking_changes_from,
            migration_guide_url   |-> data.migration_guide_url,
            opt_in_required       |-> data.opt_in_required])

\* dates given to the constructor: from 2025-01-01 the days 2025-12-31,
\* 2026-01-01 and 2026-01-02 are 364, 365 and 366 days away
TestDates ==
    { CalDate(2024, 1, 1), CalDate(2025, 1, 1), CalDate(2025, 6, 1),
      CalDate(2025, 12, 31), CalDate(2026, 1, 1), CalDate(2026, 1, 2) }
OptTestDates == {None} \cup {Some(c) : c \in TestDates}

ConstructorArgs ==
    [version_id : {V1, BadV}, status : Statuses, release_date : TestDates,
     deprecation_date : OptTestDates, sunset_date : OptTestDates,
     breaking_changes_from : {None}, migration_guide_url : {None, Some("/docs/m")},
     opt_in_required : {FALSE}]

NotCalled == [step |-> "args", obj |-> None, dict |-> None, back |-> None]

\* VersionMetadata(**fn_args)
MetaConstruct ==
    /\ fn_result.step = "args"
    /\ fn_result' = [fn_result EXCEPT !.step = "constructed",
                                      !.obj = Construct(fn_args)]
    /\ UNCHANGED fn_args

\* m.to_dict()
MetaToDict ==
    /\ fn_result.step = "constructed" /\ IsSome(fn_result.obj)
    /\ fn_result' = [fn_result EXCEPT !.step = "serialised",
                                      !.dict = Some(to_dict(Val(fn_result.obj)))]
    /\ UNCHANGED fn_args

\* VersionRegistry._parse_version_metadata(m.version_id, m.to_dict())
MetaParse ==
    /\ fn_result.step = "serialised"
    /\ fn_result' = [fn_result EXCEPT
                       !.step = "parsed",
                       !.back = parse_version_metadata(
                                   Val(fn_result.obj).version_id,
                                   Val(fn_result.dict))]
    /\ UNCHANGED fn_args

InitMeta ==
    /\ fn_args \in ConstructorArgs
    /\ fn_result = NotCalled
    /\ RegIdle /\ ThrIdle /\ PipeIdle /\ PrecIdle /\ RateIdle /\ CbIdle

NextMeta ==
    \/ MetaConstruct /\ UNCHANGED <<regVars, thrVars, pipeVars, precVars, rateVars, cbVars>>
    \/ MetaToDict /\ UNCHANGED <<regVars, thrVars, pipeVars, precVars, rateVars, cbVars>>
    \/ MetaParse /\ UNCHANGED <<regVars, thrVars, pipeVars, precVars, rateVars, cbVars>>

SpecMeta == InitMeta /\ [][NextMeta]_vars

\* the object the constructor returned, if it returned one
Constructed == fn_result.step # "args" /\ IsSome(fn_result.obj)

Before(c1, c2) == ToOrdinal(c1) <= ToOrdinal(c2)

\* C21: every VersionMetadata that exists has a deprecation_date when
\* deprecated, a sunset_date when sunset, a deprecation_date whenever it has
\* a sunset_date, and release_date <= deprecation_date <= sunset_date where
\* present; arguments violating any of these yield no object.
C21_MetadataInvariants ==
    LET a == fn_args
        good ==
          /\ a.status = "deprecated" => IsSome(a.deprecation_date)
          /\ a.status = "sunset" => IsSome(a.sunset_date)
          /\ IsSome(a.sunset_date) => IsSome(a.deprecation_date)
          /\ IsSome(a.deprecation_date) =>
                Before(a.release_date, Val(a.deprecation_date))
          /\ (IsSome(a.deprecation_date) /\ IsSome(a.sunset_date)) =>
                Before(Val(a.deprecation_date), Val(a.sunset_date))
          /\ IsSome(a.sunset_date) => Before(a.release_date, Val(a.sunset_date))
    IN /\ Constructed => (good /\ Val(fn_result.obj) = a)
       /\ (fn_result.step # "args" /\ ~good) => IsNone(fn_result.obj)

C21_Witness ==
    /\ Constructed
    /\ fn_args.status = "sunset"
    /\ IsSome(fn_args.sunset_date)

C23_RoundTrip ==
    fn_result.step = "parsed" =>
        /\ IsSome(fn_result.back)
        /\ LET m == Val(fn_result.obj)
               b == Val(fn_result.back)
           IN /\ b.version_id = m.version_id
              /\ b.status = m.status
              /\ b.release_date = m.release_date
              /\ b.deprecation_date = m.deprecation_date
              /\ b.sunset_date = m.sunset_date

C23_Witness ==
    /\ fn_result.step = "parsed"
    /\ IsSome(fn_result.back)
    /\ IsSome(Val(fn_result.back).sunset_date)
    /\ Val(fn_result.back).release_date = CalDate(2024, 1, 1)

-----------------------------------------------------------------------------
(* VersionRegistry.list_active_versions on installed registries            *)

V10 == <<"v", "1", "0">>
ListIds == {V1, V2, V10, V3B}

\* installed registries: entries by id, exactly one of them current
ListRegistries ==
    { vs \in UNION { [S -> [status : Statuses]] : S \in (SUBSET ListIds) \ {{}} } :
        Cardinality(CurrentIds(vs)) = 1 }

\* registry.list_active_versions(include_prerelease, include_sunset)
ListActive ==
    /\ fn_result = None
    /\ fn_result' = Some(list_active_versions(fn_args.versions,
                                              fn_args.include_prerelease,
                                              fn_args.include_sunset))
    /\ UNCHANGED fn_args

InitList ==
    /\ fn_args \in [versions : ListRegistries, include_prerelease : BOOLEAN,
                    include_sunset : BOOLEAN]
    /\ fn_result = None
    /\ RegIdle /\ ThrIdle /\ PipeIdle /\ PrecIdle /\ RateIdle /\ CbIdle

NextList ==
    ListActive /\ UNCHANGED <<regVars, thrVars, pipeVars, precVars, rateVars, cbVars>>

SpecList == InitList /\ [][NextList]_vars

\* C24: the result holds exactly the installed ids whose status is not
\* sunset unless include_sunset and not prerelease unless include_prerelease
\* (current and deprecated always), each once, in ascending order of the
\* version_id strings.
C24_ListActive ==
    IsSome(fn_result) =>
        LET r  == Val(fn_result)
            vs == fn_args.versions
        IN /\ \A id \in DOMAIN vs :
                 (\E i \in 1..Len(r) : r[i] = id) <=>
                    \/ vs[id].status \in {"current", "deprecated"}
                    \/ vs[id].status = "sunset" /\ fn_args.include_sunset
                    \/ vs[id].status = "prerelease" /\ fn_args.include_prerelease
           /\ \A i \in 1..Len(r) : r[i] \in DOMAIN vs
           /\ \A i, j \in 1..Len(r) : i < j => StrLess(r[i], r[j])

C24_Witness ==
    /\ IsSome(fn_result)
    /\ fn_args.include_prerelease /\ ~fn_args.include_sunset
    /\ DOMAIN fn_args.versions = ListIds
    /\ fn_args.versions[V1].status = "sunset"
    /\ Val(fn_result) = <<V10, V2, V3B>>

-----------------------------------------------------------------------------
(* Candidates extracted from a request                                     *)

\* the part of a scope one source reads
PartOf(scope, src) ==
    CASE src = "header" -> scope.headers
      [] src = "url_path" -> scope.path
      [] src = "query_param" -> scope.query

ExtractedSources == {"header", "url_path", "query_param"}

\* C25: extraction yields at most one candidate per source and at most three
\* in all, a header candidate with rank 1, a URL-path candidate with rank 2,
\* a query-parameter candidate with rank 3, and what a source yields depends
\* only on the part of the request that source reads.
C25_ExtractionShape ==
    req # NoRequest =>
        LET specs == extract_version_from_request(req)
        IN /\ Len(specs) <= 3
           /\ \A i \in 1..Len(specs) :
                 /\ specs[i].source \in ExtractedSources
                 /\ specs[i].precedence_rank =
                       (CASE specs[i].source = "header" -> 1
                          [] specs[i].source = "url_path" -> 2
                          [] specs[i].source = "query_param" -> 3)
           /\ \A src \in ExtractedSources :
                 /\ Len(SpecsOfSource(specs, src)) <= 1
                 /\ \A other \in Requests :
                       PartOf(other, src) = PartOf(req, src) =>
                          SpecsOfSource(extract_version_from_request(other), src)
                             = SpecsOfSource(specs, src)

C25_Witness ==
    /\ pc = "lookup"
    /\ Len(extract_version_from_request(req)) = 3

-----------------------------------------------------------------------------
(* Consumer identity (logging/metrics.py)                                  *)

OAuthPrefixLen == 20

\* s[:n]
Take(s, n) == SubSeq(s, 1, IF Len(s) < n THEN Len(s) ELSE n)

BearerPrefix == <<"B", "e", "a", "r", "e", "r", "SP">>

\* the value of the first header of the dict with the given lowered name
FirstHeader(headers, name) ==
    LET hit == {i \in 1..Len(headers) : LowerName(headers[i][1]) = name}
    IN IF hit = {} THEN None
       ELSE Some(headers[CHOOSE i \in hit : \A j \in hit : i <= j][2])

\* the first Authorization header whose value starts with "Bearer "
FirstBearer(headers) ==
    LET hit == {i \in 1..Len(headers) :
                  /\ LowerName(headers[i][1]) = "authorization"
                  /\ IsPrefix(BearerPrefix, headers[i][2])}
    IN IF hit = {} THEN None
       ELSE Some(headers[CHOOSE i \in hit : \A j \in hit : i <= j][2])

Identity(id, source) == [consumer_id |-> id, source |-> source]

\* the chain with the custom header consulted before the Authorization header
extract_consumer_identity_custom_first(headers, client_ip) ==
    LET key  == FirstHeader(headers, "x-api-key")
        auth == FirstBearer(headers)
        cust == FirstHeader(headers, "x-consumer-id")
    IN IF IsSome(key) THEN Identity(Val(key), "API_KEY")
       ELSE IF IsSome(cust) THEN Identity(Val(cust), "CUSTOM_HEADER")
       ELSE IF IsSome(auth)
       THEN Identity(<<"oauth_">> \o Take(Val(auth), OAuthPrefixLen),
                     "OAUTH_CLIENT")
       ELSE IF Truthy(client_ip) THEN Identity(Val(client_ip), "IP_ADDRESS")
       ELSE Identity(<<"anonymous">>, "IP_ADDRESS")
\* metrics.py extract_consumer_identity (168-193)
extract_consumer_identity(headers, client_ip) ==
    LET key  == FirstHeader(headers, "x-api-key")
        auth == FirstBearer(headers)
        cust == FirstHeader(headers, "x-consumer-id")
    IN IF IsSome(key) THEN Identity(Val(key), "API_KEY")
       ELSE IF IsSome(auth)
       THEN Identity(<<"oauth_">> \o Take(Val(auth), OAuthPrefixLen),
                     "OAUTH_CLIENT")
       ELSE IF IsSome(cust) THEN Identity(Val(cust), "CUSTOM_HEADER")
       ELSE IF Truthy(client_ip) THEN Identity(Val(client_ip), "IP_ADDRESS")
       ELSE Identity(<<"anonymous">>, "IP_ADDRESS")

LongToken ==
    BearerPrefix \o <<"a", "b", "c", "d", "e", "f", "g", "h", "i", "j", "k",
                      "l", "m", "n", "o", "p">>
ApiKeyValues  == {None, Some(<<"k", "1">>), Some(<<>>)}
AuthValues    ==
    {None, Some(LongToken), Some(BearerPrefix \o <<"t">>),
     Some(<<"B", "a", "s", "i", "c", "SP", "x">>),
     Some(<<"b", "e", "a", "r", "e", "r", "SP", "t">>)}
ConsumerValues == {None, Some(<<"c", "7">>)}
ClientIps      == {None, Some(<<>>), Some(<<"1", "0", ".", "0", ".", "0", ".", "1">>)}

OptHeader(name, o) == IF IsSome(o) THEN << <<name, Val(o)>> >> ELSE <<>>

\* the request headers holding the given values, in one of two orders
HeadersOf(a) ==
    IF a.reversed
    THEN OptHeader("X-Consumer-ID", a.consumer) \o
         OptHeader("Authorization", a.auth) \o OptHeader("X-API-Key", a.key)
    ELSE OptHeader("X-API-Key", a.key) \o
         OptHeader("Authorization", a.auth) \o
         OptHeader("X-Consumer-ID", a.consumer)

\* extract_consumer_identity(headers, client_ip)
ExtractIdentity ==
    /\ fn_result = None
    /\ fn_result' = Some(extract_consumer_identity(HeadersOf(fn_args),
                                                   fn_args.client_ip))
    /\ UNCHANGED fn_args

InitIdentity ==
    /\ fn_args \in [key : ApiKeyValues, auth : AuthValues,
                    consumer : ConsumerValues, client_ip : ClientIps,
                    reversed : BOOLEAN]
    /\ fn_result = None
    /\ RegIdle /\ ThrIdle /\ PipeIdle /\ PrecIdle /\ RateIdle /\ CbIdle

NextIdentity ==
    ExtractIdentity /\ UNCHANGED <<regVars, thrVars, pipeVars, precVars, rateVars, cbVars>>

SpecIdentity == InitIdentity /\ [][NextIdentity]_vars

\* C26: the identity is the API key when that header is present, else the
\* identity of the bearer token when Authorization holds one, else the
\* custom consumer id when present, else the client IP when given, else the
\* anonymous sentinel; an Authorization header that is no Bearer token is
\* passed over.
C26_IdentityChain ==
    IsSome(fn_result) =>
        LET a == fn_args
            r == Val(fn_result)
            bearer == IsSome(a.auth) /\ IsPrefix(BearerPrefix, Val(a.auth))
        IN /\ IsSome(a.key) =>
                 r = Identity(Val(a.key), "API_KEY")
           /\ (IsNone(a.key) /\ bearer) =>
                 /\ r.source = "OAUTH_CLIENT"
                 /\ r.consumer_id = <<"oauth_">> \o Take(Val(a.auth), 20)
           /\ (IsNone(a.key) /\ ~bearer /\ IsSome(a.consumer)) =>
                 r = Identity(Val(a.consumer), "CUSTOM_HEADER")
           /\ (IsNone(a.key) /\ ~bearer /\ IsNone(a.consumer)) =>
                 r = IF a.client_ip \in {None, Some(<<>>)}
                     THEN Identity(<<"anonymous">>, "IP_ADDRESS")
                     ELSE Identity(Val(a.client_ip), "IP_ADDRESS")

C26_Witness ==
    /\ IsSome(fn_result)
    /\ IsNone(fn_args.key)
    /\ fn_args.auth = Some(<<"B", "a", "s", "i", "c", "SP", "x">>)
    /\ Val(fn_result) = Identity(<<"c", "7">>, "CUSTOM_HEADER")

-----------------------------------------------------------------------------
(* Rejected checks and bursts of the rate limiter                          *)

\* ceil of a duration given in ticks, in seconds
CeilSeconds(ticks) == (ticks + TicksPerSecond - 1) \div TicksPerSecond

\* C27: a rejected check returns retry_after = max(1, ceil(reset_at - now))
\* with reset_at = window_start + window_seconds, so that the window has
\* ended once retry_after seconds have passed since the rejection.
C27_RetryAfterCeil ==
    (IsSome(rl_result) /\ ~Val(rl_result).result.allowed) =>
        LET r == Val(rl_result)
        IN /\ r.result.reset_at =
                 states[r.consumer].window_start + Ticks(WindowSeconds)
           /\ r.result.retry_after =
                 Some(Max(1, CeilSeconds(r.result.reset_at - r.time)))
           /\ r.time + Ticks(Val(r.result.retry_after)) >= r.result.reset_at
\* one consumer checked again and again with one authentication status;
\* fn_result counts, for each instant, the checks allowed at it
NoneAllowed == [t \in 0..MaxTime |-> 0]

BurstCheck ==
    /\ CheckLimit(fn_args.consumer, fn_args.auth)
    /\ fn_result' =
         IF check_limit_step(states, fn_args.consumer, fn_args.auth,
                             now).result.allowed
         THEN [fn_result EXCEPT ![now] = @ + 1]
         ELSE fn_result
    /\ UNCHANGED fn_args

BurstTick == Tick /\ UNCHANGED fnVars

InitBurst ==
    /\ RateIdle
    /\ fn_args \in [consumer : {"c1"}, auth : BOOLEAN]
    /\ fn_result = NoneAllowed
    /\ RegIdle /\ ThrIdle /\ PipeIdle /\ PrecIdle /\ CbIdle

NextBurst ==
    \/ BurstCheck /\ UNCHANGED <<regVars, thrVars, pipeVars, precVars, cbVars>>
    \/ BurstTick /\ UNCHANGED <<regVars, thrVars, pipeVars, precVars, cbVars>>

SpecBurst == InitBurst /\ [][NextBurst]_vars

RECURSIVE AllowedIn(_, _, _)
AllowedIn(f, lo, hi) ==
    IF lo > hi THEN 0
    ELSE (IF lo \in DOMAIN f THEN f[lo] ELSE 0) + AllowedIn(f, lo + 1, hi)

-----------------------------------------------------------------------------
(* Requests carrying several version headers                               *)

\* the version values the headers of a request carry
HeaderVersionValues(scope) ==
    { Strip(scope.headers[i][2]) :
        i \in { j \in 1..Len(scope.headers) :
                  /\ LowerName(scope.headers[j][1]) \in VersionHeaderNames
                  /\ Strip(scope.headers[j][2]) # <<>> } }

\* C29: a request whose headers carry two differing version values is
\* answered with the VersionConflict error (400) and is not passed on.
C29_HeaderConflictRejected ==
    (pc = "done" /\ Cardinality(HeaderVersionValues(req)) >= 2) =>
        /\ ~app_called
        /\ Len(response) = 1
        /\ response[1].status = 400
        /\ response[1].code = "VERSION_CONFLICT"

-----------------------------------------------------------------------------
(* The default version of a pipeline across reloads                        *)

OnlyV2 ==
    File("dict", [i \in {V2} |->
        Entry(Some("current"), Rel0, None, None, None, None, FALSE)])
DefaultFiles == ReloadFiles \cup {OnlyV2}

\* registry.reload() between two requests
ReloadBetweenRequests ==
    /\ pc \in {"idle", "done"}
    /\ \E text \in DefaultFiles : reload(text)
    /\ UNCHANGED <<thrVars, pipeVars, precVars, fnVars, rateVars, cbVars>>

\* APIVersionMiddleware(app) built on a loaded registry, with no
\* default_version argument (middleware 81-98)
InitDefault ==
    /\ \E text \in DefaultFiles : load_ok(text) /\ Deployed(text)
    /\ ThrIdle /\ PrecIdle /\ FnIdle /\ RateIdle /\ CbIdle /\ FltIdle
    /\ pc = "idle"
    /\ req = NoRequest
    /\ today = Day.dep
    /\ version_id = <<>>
    /\ metadata = None
    /\ response = <<>>
    /\ app_called = FALSE
    /\ scope_bound = FALSE
    /\ stages = <<>>
    /\ default_version = Val(get_current_version(versions)).version_id
    /\ start_versions = <<>>

NextDefault ==
    \/ ReloadBetweenRequests
    \/ HttpRequestConc
    \/ ResolveStage /\ UNCHANGED <<regVars, thrVars, precVars, fnVars, rateVars, cbVars, fltVars>>
    \/ LookupStage /\ UNCHANGED <<regVars, thrVars, precVars, fnVars, rateVars, cbVars, fltVars>>
    \/ NotFoundStage /\ UNCHANGED <<regVars, thrVars, precVars, fnVars, rateVars, cbVars, fltVars>>
    \/ SunsetStage /\ UNCHANGED <<regVars, thrVars, precVars, fnVars, rateVars, cbVars, fltVars>>
    \/ PrereleaseStage /\ UNCHANGED <<regVars, thrVars, precVars, fnVars, rateVars, cbVars, fltVars>>
    \/ CallApp /\ UNCHANGED <<regVars, thrVars, precVars, fnVars, rateVars, cbVars, fltVars>>

SpecDefault == InitDefault /\ [][NextDefault]_vars

\* C30: a request carrying no version specification is resolved to the
\* version that is current in the installed registry, which exists in it,
\* and is never answered with NotFound.
C30_DefaultIsCurrent ==
    (pc = "done" /\ extract_version_from_request(req) = <<>>) =>
        /\ version_id \in DOMAIN versions
        /\ versions[version_id].status = "current"
        /\ response[Len(response)].status # 404

-----------------------------------------------------------------------------
(* Guarded operations that end with a BaseException                        *)

\* exceptions that are not instances of Exception: a cancelled task, an
\* interrupt, an exit request
BaseExceptions ==
    { [kind |-> "raise_base", value |-> e] :
          e \in {"CancelledError", "KeyboardInterrupt"} }

\* circuit_breaker.py 106-112: "except Exception" around func() runs
\* _on_failure for instances of Exception only
call_records_failure(out) == out.kind = "raise"

\* circuit_breaker.py 191-196: __exit__ runs _on_failure whenever exc_type
\* is not None
exit_records_failure(out) == out.kind # "return"

\* the operation ends with a BaseException: through call() (106-112) it
\* passes the except clause, through "with protect()" __exit__ (191-196)
\* records a failure; either way it propagates to the caller
CbAbort(out) ==
    /\ cb_pc = "running"
    /\ LET via == Val(cb_last).op
           rec == IF via = "call" THEN call_records_failure(out)
                  ELSE exit_records_failure(out)
           b   == IF rec THEN on_failure(Breaker, cb_now) ELSE Breaker
       IN /\ SetBreaker(b)
          /\ cb_last' = Some([Val(cb_last) EXCEPT
                                 !.at_exit = Some(Breaker),
                                 !.exit_time = Some(cb_now),
                                 !.outcome = Some(out),
                                 !.recorded = IF rec THEN @ + 1 ELSE @,
                                 !.observed = Some(caller_sees(out))])
          /\ cb_hist' =
                IF rec
                THEN [cb_hist EXCEPT !.run = cb_hist.run + 1,
                                     !.maxrun = Max(cb_hist.maxrun, cb_hist.run + 1),
                                     !.fails = IF cb_hist.fails < FailureThreshold
                                               THEN cb_hist.fails + 1
                                               ELSE cb_hist.fails,
                                     !.hrun = 0]
                ELSE cb_hist
    /\ cb_pc' = "idle"
    /\ UNCHANGED <<cb_now, ct_pc, ct_loc, ct_done>>

InitBreakerExit == InitBreaker

NextBreakerExit ==
    \/ \E via \in {"call", "protect"} :
          CbEnter(via) /\ UNCHANGED <<regVars, thrVars, pipeVars, precVars, fnVars, rateVars>>
    \/ \E out \in Outcomes :
          CbExit(out) /\ UNCHANGED <<regVars, thrVars, pipeVars, precVars, fnVars, rateVars>>
    \/ \E out \in BaseExceptions :
          CbAbort(out) /\ UNCHANGED <<regVars, thrVars, pipeVars, precVars, fnVars, rateVars>>
    \/ CbReset /\ UNCHANGED <<regVars, thrVars, pipeVars, precVars, fnVars, rateVars>>
    \/ CbTick /\ UNCHANGED <<regVars, thrVars, pipeVars, precVars, fnVars, rateVars>>
SpecBreakerExit == InitBreakerExit /\ [][NextBreakerExit]_vars

\* C31: when a guarded call has returned control to its caller, _on_success
\* or _on_failure has run exactly once for it if the operation was run,
\* however the operation ended and through call() as through protect(); and
\* not at all if the call was rejected with CircuitBreakerOpen.
C31_OneOutcomePerAdmittedCall ==
    (cb_last # None /\ Val(cb_last).op # "reset" /\ cb_pc = "idle") =>
        LET c == Val(cb_last)
        IN /\ c.invoked => c.recorded = 1
           /\ ~c.invoked => c.recorded = 0

-----------------------------------------------------------------------------
(* Two limiters whose configurations differ in burst_capacity only         *)

MaxBurst == 3
MaxTwinTime == 4
BurstCapacities == 0..MaxBurst

\* the configurations of the second limiter: RateLimitConfig (13-26) with
\* the same requests_per_minute and window_seconds, and another
\* burst_capacity
TwinConfigFor(is_authenticated) ==
    [ConfigFor(is_authenticated) EXCEPT
        !.burst_capacity = fn_args.burst_capacity]

\* the same check_limit call made on both limiters at the same time
TwinCheck(consumer_id, is_authenticated) ==
    /\ CheckLimit(consumer_id, is_authenticated)
    /\ LET out == check_limit_config(TwinConfigFor(is_authenticated),
                                     fn_result.states, consumer_id, now)
       IN fn_result' =
            [states |-> [c \in DOMAIN fn_result.states \cup {consumer_id} |->
                            IF c = consumer_id THEN out.state
                            ELSE fn_result.states[c]],
             result |-> Some(out.result)]
    /\ UNCHANGED fn_args

TwinTick == now < MaxTwinTime /\ Tick /\ UNCHANGED fnVars

InitTwin ==
    /\ states = <<>>
    /\ now = 0
    /\ rl_result = None
    /\ admitted = <<>>
    /\ rt_pc = <<>>
    /\ rt_loc = <<>>
    /\ fn_args \in [burst_capacity : BurstCapacities]
    /\ fn_result = [states |-> <<>>, result |-> None]
    /\ RegIdle /\ ThrIdle /\ PipeIdle /\ PrecIdle /\ CbIdle

NextTwin ==
    \/ \E c \in Consumers, a \in BOOLEAN :
          TwinCheck(c, a) /\ UNCHANGED <<regVars, thrVars, pipeVars, precVars, cbVars>>
    \/ TwinTick /\ UNCHANGED <<regVars, thrVars, pipeVars, precVars, cbVars>>
SpecTwin == InitTwin /\ [][NextTwin]_vars

-----------------------------------------------------------------------------
(* Pipelines built with a precedence order of their own                    *)

\* the orders a pipeline can be built with (middleware 68, 82)
Precedences ==
    { <<"header", "url", "query">>, <<"header", "query", "url">>,
      <<"url", "header", "query">>, <<"url", "query", "header">>,
      <<"query", "header", "url">>, <<"query", "url", "header">> }

OrderRequests ==
    { Scope(h, p, q) :
        h \in { <<>>, << <<"X-API-Version", V1>> >>, << <<"X-API-Version", V2>> >> },
        p \in { RootPath, V2Path },
        q \in { <<>>, << <<"version", V1>> >>, << <<"version", V3>> >> } }

\* middleware 119-128: the candidates of the request are resolved with
\* self.precedence
ResolveConfigured(r) ==
    /\ fn_result' =
          Some([request  |-> r,
                specs    |-> extract_version_from_request(r),
                resolved |-> resolve_version_precedence(
                                extract_version_from_request(r),
                                default_version, fn_args.precedence)])
    /\ UNCHANGED fn_args

InitOrder ==
    /\ fn_args \in [precedence : Precedences]
    /\ fn_result = None
    /\ RegIdle /\ ThrIdle /\ PipeIdle /\ PrecIdle /\ RateIdle /\ CbIdle

NextOrder ==
    \E r \in OrderRequests :
        ResolveConfigured(r) /\ UNCHANGED <<regVars, thrVars, pipeVars, precVars, rateVars, cbVars>>
SpecOrder == InitOrder /\ [][NextOrder]_vars

\* the version id of the candidate of one source among the candidates
CandidateOf(specs, src) ==
    LET ss == SpecsOfSource(specs, src)
    IN IF ss = <<>> THEN None ELSE Some(ss[1].version_id)

\* C33: in a pipeline built with precedence (query, url, header), a request
\* that carries a header candidate and a query candidate resolves to the
\* version of the query candidate.
C33_ConfiguredPrecedenceWins ==
    (/\ fn_result # None
     /\ fn_args.precedence = <<"query", "url", "header">>
     /\ IsSome(CandidateOf(Val(fn_result).specs, "header"))
     /\ IsSome(CandidateOf(Val(fn_result).specs, "query_param"))) =>
        /\ Val(fn_result).resolved.ok
        /\ Val(fn_result).resolved.value
              = Val(CandidateOf(Val(fn_result).specs, "query_param"))

-----------------------------------------------------------------------------
(* Response-start messages of one request                                  *)

\* C34: at most one response-start message is sent for a request, also when
\* the application raises after it has started its response: the generic
\* internal error is never sent after a response start.
C34_OneResponseStart ==
    /\ Len(response) <= 1
    /\ \A i \in 2..Len(response) :
          response[i] # ErrorMsg(500, "INTERNAL_SERVER_ERROR")

-----------------------------------------------------------------------------
(* Rejected calls                                                          *)

\* a step that is a guarded call answered with CircuitBreakerOpen
CbRejectStep ==
    /\ CbAttemptStep
    /\ ~Val(cb_last').invoked
    /\ Val(cb_last').observed = Some(CircuitBreakerOpen)

\* C35: a call rejected with CircuitBreakerOpen leaves state, failure_count,
\* success_count and last_failure_time as they were, so the times at which
\* the breaker accepts a trial call are the same after it as before.
C35_RejectionChangesNothing ==
    [][ CbRejectStep =>
          /\ UNCHANGED <<cb_state, failure_count, success_count,
                         last_failure_time>>
          /\ \A t \in 0..MaxCbTime :
                should_attempt_reset(
                    BreakerOf(cb_state', failure_count', success_count',
                              last_failure_time'), t)
                  = should_attempt_reset(Breaker, t) ]_vars

\* a call rejected later than the failure that opened the breaker, through
\* protect()
C35_Witness ==
    /\ cb_last # None
    /\ Val(cb_last).op = "protect"
    /\ ~Val(cb_last).invoked
    /\ Val(cb_last).observed = Some(CircuitBreakerOpen)
    /\ cb_state = "OPEN"
    /\ Val(cb_last).time > Val(last_failure_time)
    /\ cb_now = Val(cb_last).time

-----------------------------------------------------------------------------
(* Counters and state of the breaker                                       *)

\* C36: with guarded calls made one at a time and reset(): in CLOSED
\* failure_count is below failure_threshold; in OPEN last_failure_time is
\* set; success_count is always below success_threshold and is positive in
\* HALF_OPEN only.
C36_BreakerInvariants ==
    /\ cb_state = "CLOSED" => failure_count < FailureThreshold
    /\ cb_state = "OPEN" => last_failure_time # None
    /\ success_count < SuccessThreshold
    /\ success_count > 0 => cb_state = "HALF_OPEN"

\* CLOSED one failure short of the threshold, after a failed call
C36_Witness ==
    /\ cb_state = "CLOSED"
    /\ cb_pc = "idle"
    /\ failure_count = FailureThreshold - 1
    /\ failure_count > 0
    /\ cb_last # None
    /\ Val(cb_last).invoked
    /\ Val(Val(cb_last).outcome).kind = "raise"

-----------------------------------------------------------------------------
(* Threads that call the breaker again and again while time passes         *)

MaxCalls == 4

\* ghost kept in fn_result: the number of HALF_OPEN periods begun so far;
\* for each thread the breaker state and the period in which its running
\* call was admitted; the calls made; the successes counted in the current
\* HALF_OPEN period that belong to calls admitted in it; the last success
\* counted as a trial success; and what closed the breaker last
NoEpochs ==
    [epoch |-> 0,
     adm |-> [th \in CtThreads |-> [state |-> "CLOSED", epoch |-> 0]],
     calls |-> 0, fresh |-> 0, last_counted |-> None, closed_with |-> None]

\* call(func) entered by a thread (97-103)
EpEnter(th, kind) ==
    /\ fn_result.calls < MaxCalls
    /\ CtEnter(th, kind)
    /\ LET opened == cb_state = "OPEN" /\ cb_state' = "HALF_OPEN"
           ep     == IF opened THEN fn_result.epoch + 1 ELSE fn_result.epoch
       IN fn_result' =
            [fn_result EXCEPT
                !.epoch = ep,
                !.fresh = IF opened THEN 0 ELSE @,
                !.calls = @ + 1,
                !.adm = [@ EXCEPT ![th] = [state |-> cb_state', epoch |-> ep]]]
    /\ UNCHANGED fn_args

\* _on_success reads self.state (138): in HALF_OPEN the success is counted
\* as a trial success
EpSuccTest(th) ==
    /\ CtSuccTest(th)
    /\ fn_result' =
          IF cb_state = "HALF_OPEN"
          THEN [fn_result EXCEPT
                  !.last_counted = Some([thread |-> th,
                                         adm |-> fn_result.adm[th],
                                         epoch |-> fn_result.epoch]),
                  !.fresh = IF fn_result.adm[th]
                               = [state |-> "HALF_OPEN",
                                  epoch |-> fn_result.epoch]
                            THEN @ + 1 ELSE @]
          ELSE fn_result
    /\ UNCHANGED fn_args

\* _on_success closes the breaker (141-145)
EpSuccClose(th) ==
    /\ CtSuccClose(th)
    /\ fn_result' =
          IF cb_state' = "CLOSED" /\ cb_state # "CLOSED"
          THEN [fn_result EXCEPT !.closed_with = Some(fn_result.fresh)]
          ELSE fn_result
    /\ UNCHANGED fn_args

\* the call of a thread has returned or raised; the thread may call again
EpAgain(th) ==
    /\ ct_pc[th] \in CtFinished
    /\ ct_pc' = [ct_pc EXCEPT ![th] = "idle"]
    /\ UNCHANGED <<cb_state, failure_count, success_count, last_failure_time,
                   cb_now, cb_pc, cb_last, cb_hist, ct_loc, ct_done, fnVars>>

InitEpoch ==
    /\ cb_state = "CLOSED"
    /\ failure_count = 0
    /\ success_count = 0
    /\ last_failure_time = None
    /\ cb_now = 0
    /\ cb_pc = "idle"
    /\ cb_last = None
    /\ cb_hist = NoHistory
    /\ ct_pc = [th \in CtThreads |-> "idle"]
    /\ ct_loc = [th \in CtThreads |-> 0]
    /\ ct_done = [start |-> "CLOSED", fails |-> 0, succs |-> 0]
    /\ fn_args = <<>>
    /\ fn_result = NoEpochs
    /\ RegIdle /\ ThrIdle /\ PipeIdle /\ PrecIdle /\ RateIdle

NextEpoch ==
    \/ \E th \in CtThreads, kind \in {"return", "raise"} :
          EpEnter(th, kind) /\ UNCHANGED <<regVars, thrVars, pipeVars, precVars, rateVars>>
    \/ \E th \in CtThreads : CtFailStamp(th)
          /\ UNCHANGED <<regVars, thrVars, pipeVars, precVars, fnVars, rateVars>>
    \/ \E th \in CtThreads : CtFailLoad(th)
          /\ UNCHANGED <<regVars, thrVars, pipeVars, precVars, fnVars, rateVars>>
    \/ \E th \in CtThreads : CtFailStore(th)
          /\ UNCHANGED <<regVars, thrVars, pipeVars, precVars, fnVars, rateVars>>
    \/ \E th \in CtThreads : CtFailTest(th)
          /\ UNCHANGED <<regVars, thrVars, pipeVars, precVars, fnVars, rateVars>>
    \/ \E th \in CtThreads : EpSuccTest(th)
          /\ UNCHANGED <<regVars, thrVars, pipeVars, precVars, rateVars>>
    \/ \E th \in CtThreads : CtSuccLoad(th)
          /\ UNCHANGED <<regVars, thrVars, pipeVars, precVars, fnVars, rateVars>>
    \/ \E th \in CtThreads : CtSuccStore(th)
          /\ UNCHANGED <<regVars, thrVars, pipeVars, precVars, fnVars, rateVars>>
    \/ \E th \in CtThreads : EpSuccClose(th)
          /\ UNCHANGED <<regVars, thrVars, pipeVars, precVars, rateVars>>
    \/ \E th \in CtThreads : EpAgain(th)
          /\ UNCHANGED <<regVars, thrVars, pipeVars, precVars, rateVars>>
    \/ CbTick /\ UNCHANGED <<regVars, thrVars, pipeVars, precVars, fnVars, rateVars>>
SpecEpoch == InitEpoch /\ [][NextEpoch]_vars

\* C37: under concurrent guarded calls, a success counted as a HALF_OPEN
\* trial success belongs to a call admitted in HALF_OPEN in the current
\* HALF_OPEN period, and the breaker closes only after success_threshold
\* successes of calls admitted in that period.
C37_OutcomeCountedWhereAdmitted ==
    /\ fn_result.last_counted # None =>
          LET c == Val(fn_result.last_counted)
          IN c.adm = [state |-> "HALF_OPEN", epoch |-> c.epoch]
    /\ fn_result.closed_with # None =>
          Val(fn_result.closed_with) >= SuccessThreshold

-----------------------------------------------------------------------------
(* Recovery of the breaker once the guarded operation succeeds again       *)

\* the last time at which the guarded operation can still fail
FailuresUntil == MaxCbTime - TimeoutTicks

\* a guarded call is attempted
LiveEnter ==
    /\ \E via \in {"call", "protect"} : CbEnter(via)
    /\ UNCHANGED <<regVars, thrVars, pipeVars, precVars, fnVars, rateVars>>

\* the guarded operation returns
LiveSucceed ==
    /\ \E out \in {o \in Outcomes : o.kind = "return"} : CbExit(out)
    /\ UNCHANGED <<regVars, thrVars, pipeVars, precVars, fnVars, rateVars>>

\* the guarded operation raises, which it does up to some time only
LiveFail ==
    /\ cb_now <= FailuresUntil
    /\ \E out \in {o \in Outcomes : o.kind = "raise"} : CbExit(out)
    /\ UNCHANGED <<regVars, thrVars, pipeVars, precVars, fnVars, rateVars>>

LiveReset ==
    CbReset /\ UNCHANGED <<regVars, thrVars, pipeVars, precVars, fnVars, rateVars>>

LiveTick ==
    CbTick /\ UNCHANGED <<regVars, thrVars, pipeVars, precVars, fnVars, rateVars>>

NextBreakerLive ==
    \/ LiveEnter
    \/ LiveSucceed
    \/ LiveFail
    \/ LiveReset
    \/ LiveTick

\* time passes, calls keep being attempted, and an operation that is
\* running and can return does return
SpecBreakerLive ==
    /\ InitBreaker
    /\ [][NextBreakerLive]_vars
    /\ WF_vars(LiveTick)
    /\ WF_vars(LiveEnter)
    /\ WF_vars(LiveSucceed)

\* C38: when calls keep being attempted and the operation succeeds from
\* some time on, a breaker that is OPEN or HALF_OPEN is eventually CLOSED
\* and stays CLOSED.
C38_EventuallyClosedForGood ==
    [](cb_state \in {"OPEN", "HALF_OPEN"} => <>[](cb_state = "CLOSED"))

\* the breaker closed by the last of success_threshold trial successes,
\* after the operation failed for the last time as late as it can
C38_Witness ==
    /\ cb_state = "CLOSED"
    /\ cb_pc = "idle"
    /\ last_failure_time = Some(FailuresUntil)
    /\ cb_last # None
    /\ Val(cb_last).at_exit # None
    /\ Val(Val(cb_last).at_exit).state = "HALF_OPEN"
    /\ Val(Val(cb_last).at_exit).success_count = SuccessThreshold - 1
    /\ Val(Val(cb_last).outcome).kind = "return"

-----------------------------------------------------------------------------
(* What a check_limit call writes                                          *)

\* the anonymous limits a limiter can be built with (anonymous_config,
\* rate_limit.py 81-103): RateLimitConfig accepts any int
AnonLimits == 0..LimitAnon

\* the configurations of a limiter built with anonymous_config
BuiltConfigFor(is_authenticated) ==
    IF is_authenticated THEN ConfigFor(TRUE)
    ELSE [ConfigFor(FALSE) EXCEPT !.requests_per_minute = fn_args.anonymous_limit]

BuiltCheck(consumer_id, is_authenticated) ==
    /\ CheckLimitUnder(BuiltConfigFor(is_authenticated), consumer_id,
                       is_authenticated)
    /\ UNCHANGED fnVars

InitBuilt ==
    /\ states = <<>>
    /\ now = 0
    /\ rl_result = None
    /\ admitted = <<>>
    /\ rt_pc = <<>>
    /\ rt_loc = <<>>
    /\ fn_args \in [anonymous_limit : AnonLimits]
    /\ fn_result = None
    /\ RegIdle /\ ThrIdle /\ PipeIdle /\ PrecIdle /\ CbIdle

NextBuilt ==
    \/ \E c \in Consumers, a \in BOOLEAN :
          BuiltCheck(c, a) /\ UNCHANGED <<regVars, thrVars, pipeVars, precVars, cbVars>>
    \/ TwinTick /\ UNCHANGED <<regVars, thrVars, pipeVars, precVars, cbVars>>
SpecBuilt == InitBuilt /\ [][NextBuilt]_vars

\* no check_limit call changes, adds or removes the stored state of a
\* consumer other than the one it is made for
OthersUntouched(consumer_id) ==
    \A c \in (DOMAIN states \cup DOMAIN states') \ {consumer_id} :
        /\ c \in DOMAIN states
        /\ c \in DOMAIN states'
        /\ states'[c] = states[c]

\* the stored state of a consumer that had one is as it was
OwnStateKept(consumer_id) ==
    consumer_id \in DOMAIN states =>
        /\ states'[consumer_id].request_count = states[consumer_id].request_count
        /\ states'[consumer_id].window_start = states[consumer_id].window_start
        /\ states'[consumer_id].last_request = states[consumer_id].last_request

\* C39 as stated: a rejected check_limit call leaves the stored state of its
\* consumer (request_count, window_start, last_request) as it was, and no
\* check_limit call changes the stored state of another consumer.
C39_CheckLimitFrame ==
    [][ rl_result' # None =>
          LET r == Val(rl_result')
          IN /\ OthersUntouched(r.consumer)
             /\ ~r.result.allowed => OwnStateKept(r.consumer) ]_vars

\* C39: a check_limit call rejected under a configuration that allows at
\* least one request per window leaves the stored state of its consumer as
\* it was, and no check_limit call, under any configuration, changes the
\* stored state of another consumer.
C39_FrameWithPositiveLimit ==
    [][ rl_result' # None =>
          LET r == Val(rl_result')
          IN /\ OthersUntouched(r.consumer)
             /\ (/\ ~r.result.allowed
                 /\ BuiltConfigFor(r.auth).requests_per_minute >= 1) =>
                    OwnStateKept(r.consumer) ]_vars

\* a check rejected under a limit of at least one, later than the
\* consumer's last allowed request, while another consumer has a stored
\* state of its own
C39_Witness ==
    /\ rl_result # None
    /\ ~Val(rl_result).result.allowed
    /\ BuiltConfigFor(Val(rl_result).auth).requests_per_minute >= 1
    /\ Val(rl_result).time = now
    /\ now > states[Val(rl_result).consumer].last_request
    /\ \E c \in DOMAIN states :
          /\ c # Val(rl_result).consumer
          /\ states[c] # states[Val(rl_result).consumer]

=============================================================================
